---- MODULE Spec2Model ----
(***************************************************************************)
(* A model of rustyguard: the rustyguard-crypto crate (Noise IKpsk2        *)
(* handshake, MAC protection, cookies) and the earlier src/ skeleton       *)
(* (Sessions::recv_message and its fixed-layout messages).                 *)
(*                                                                         *)
(* Cryptography is symbolic.  A byte string is a sequence of chunks; a     *)
(* chunk is a tagged tuple whose tag fixes its shape and its size in       *)
(* bytes.  Hashes, MACs and AEAD tags are free constructors (no            *)
(* collisions), X25519 is commutative, and the ChaCha20 key stream is an   *)
(* involution, as in the real primitives.                                  *)
(***************************************************************************)
EXTENDS Integers, Sequences, FiniteSets, TLC

(***************************************************************************)
(* Bounds of the model.                                                    *)
(***************************************************************************)
\* secret keys are drawn from 1..NumKeys
NumKeys == 2
\* TAI64N timestamps are drawn from 1..NumStamps
NumStamps == 1
\* sender indices are drawn from 1..NumIndex
NumIndex == 2
\* pre-shared keys are drawn from 0..NumPsk (0 is the all-zero default)
NumPsk == 1
\* source addresses are numbered 1..NumAddr (odd IPv4, even IPv6)
NumAddr == 2
\* the cookie secret is regenerated at most MaxSecrets times
MaxSecrets == 1
\* at most MaxReplies Cookie Replies draw a nonce from the rng
MaxReplies == 2

(***************************************************************************)
(* Chunks and byte strings.                                                *)
(***************************************************************************)
le32(n) == <<"le32", n>>
u8(n) == <<"u8", n>>
zero(n) == <<"zero", n>>
junk(n, id) == <<"junk", n, id>>
rnd(n, id) == <<"rnd", n, id>>
ts(n) == <<"ts", n>>

RECURSIVE BytesLen(_)
RECURSIVE Size(_)
\* size in bytes of one chunk
Size(c) ==
    CASE c[1] = "le32" -> 4
      [] c[1] = "u8" -> 1
      [] c[1] \in {"zero", "junk", "rnd"} -> c[2]
      [] c[1] = "ts" -> 12
      [] c[1] \in {"pk", "lit", "hash", "hmac", "psk", "dh", "dhx"} -> 32
      [] c[1] \in {"mac", "tag"} -> 16
      [] c[1] = "label" -> 8
      [] c[1] = "ip4" -> 4
      [] c[1] = "ip6" -> 16
      [] c[1] \in {"le16", "be16"} -> 2
      [] c[1] \in {"ct", "xct"} -> BytesLen(c[4])
      [] c[1] = "tail" -> BytesLen(c[3]) - c[2]

\* length in bytes of a byte string
BytesLen(b) == IF b = <<>> THEN 0 ELSE Size(Head(b)) + BytesLen(Tail(b))

RECURSIVE Take(_, _)
\* bytes[..n]: the chunks that lie wholly in the first n bytes
Take(b, n) ==
    IF b = <<>> \/ Size(Head(b)) > n THEN <<>>
    ELSE <<Head(b)>> \o Take(Tail(b), n - Size(Head(b)))

RECURSIVE Drop(_, _)
\* bytes[n..]: what follows the first n bytes (n on a chunk boundary)
Drop(b, n) ==
    IF b = <<>> \/ n <= 0 THEN b
    ELSE Drop(Tail(b), n - Size(Head(b)))

\* bytes[off .. off+len]
Slice(b, off, len) == Take(Drop(b, off), len)

RECURSIVE Flatten(_)
\* the concatenation of an array of byte slices
Flatten(msgs) == IF msgs = <<>> THEN <<>> ELSE Head(msgs) \o Flatten(Tail(msgs))

(***************************************************************************)
(* Crypto primitives (src/src/crypto.rs; src/src/utils.rs holds the same   *)
(* functions for the src/ skeleton).                                       *)
(***************************************************************************)
CONSTRUCTION_HASH ==
    <<"lit", <<96, 226, 109, 174, 243, 39, 239, 192, 46, 195, 53, 226, 160, 37, 210, 208,
               22, 235, 66, 6, 248, 114, 119, 245, 45, 56, 209, 152, 139, 120, 205, 54>> >>
IDENTIFIER_HASH ==
    <<"lit", <<34, 17, 179, 97, 8, 26, 197, 102, 105, 18, 67, 219, 69, 138, 213, 50,
               45, 156, 108, 102, 34, 147, 232, 183, 14, 225, 156, 101, 186, 7, 158, 243>> >>
LABEL_MAC1 == <<"label", "mac1----">>
LABEL_COOKIE == <<"label", "cookie--">>

\* the 12-byte ChaCha20-Poly1305 nonce 0^4 || LE64(counter)
nonce(counter) == <<"nonce", counter>>

\* BLAKE2s-256 over the concatenated slices
hash(msg) == <<"hash", Flatten(msg)>>

\* keyed BLAKE2s-128 over the concatenated slices
mac(key, msg) == <<"mac", key, Flatten(msg)>>

\* HMAC-BLAKE2s over the concatenated slices
hmac(key, msg) == <<"hmac", key, Flatten(msg)>>

RECURSIVE hkdf_ti(_, _)
\* T_i of HKDF-Expand: T_1 = hmac(t0, [1]), T_i = hmac(t0, [T_{i-1}, i])
hkdf_ti(t0, i) ==
    IF i = 1 THEN hmac(t0, << <<u8(1)>> >>)
    ELSE hmac(t0, << <<hkdf_ti(t0, i - 1)>>, <<u8(i)>> >>)

\* hkdf::<N>(key, msg): the N outputs T_1 .. T_N
hkdf(N, key, msg) ==
    LET t0 == hmac(key, msg) IN [i \in 1..N |-> hkdf_ti(t0, i)]

\* X25519: the public key of a secret, and the shared secret
PublicKey(sk) == <<"pk", sk>>
diffie_hellman(sk, pk) ==
    IF pk[1] = "pk" THEN <<"dh", {sk, pk[2]}>> ELSE <<"dhx", sk, pk>>

\* the ChaCha20 key stream XORed into a buffer: an involution
KeyStream(tag, key, n, buf) ==
    IF buf = <<>> THEN <<>>
    ELSE IF Len(buf) = 1 /\ buf[1][1] = tag /\ buf[1][2] = key /\ buf[1][3] = n
         THEN buf[1][4]
         ELSE << <<tag, key, n, buf>> >>

\* the Poly1305 tag over (aad, ciphertext)
Poly1305(key, n, aad, ct) == <<"tag", key, n, aad, ct>>

\* AeadInPlace::encrypt_in_place_detached: the ciphertext and its tag
encrypt_in_place_detached(kind, key, n, aad, buf) ==
    LET ct == KeyStream(kind, key, n, buf)
    IN [msg |-> ct, tag |-> Poly1305(key, n, aad, ct)]

\* AeadInPlace::decrypt_in_place_detached: the tag is verified first and the
\* buffer is left as it was when the tag is wrong
decrypt_in_place_detached(kind, key, n, aad, buf, tag) ==
    IF tag = Poly1305(key, n, aad, buf)
    THEN [ok |-> TRUE, msg |-> KeyStream(kind, key, n, buf)]
    ELSE [ok |-> FALSE, msg |-> buf]

(***************************************************************************)
(* Noise state (HandshakeState).                                           *)
(***************************************************************************)
\* the two constants taken for one another
HandshakeState_default_swapped == [chain |-> IDENTIFIER_HASH, hash |-> CONSTRUCTION_HASH]

HandshakeState_default == [chain |-> CONSTRUCTION_HASH, hash |-> IDENTIFIER_HASH]

mix_hash(hs, b) == [hs EXCEPT !.hash = hash(<< <<hs.hash>>, b >>)]

mix_chain(hs, b) == [hs EXCEPT !.chain = hkdf(1, hs.chain, <<b>>)[1]]

mix_dh(hs, sk, pk) ==
    LET prk == diffie_hellman(sk, pk)
    IN [hs EXCEPT !.chain = hkdf(1, hs.chain, << <<prk>> >>)[1]]

\* returns the new state and the key k
mix_key_dh(hs, sk, pk) ==
    LET prk == diffie_hellman(sk, pk)
        ck == hkdf(2, hs.chain, << <<prk>> >>)
    IN [hs |-> [hs EXCEPT !.chain = ck[1]], k |-> ck[2]]

mix_key2(hs, b) ==
    LET ctk == hkdf(3, hs.chain, <<b>>)
    IN [hs |-> mix_hash([hs EXCEPT !.chain = ctk[1]], <<ctk[2]>>), k |-> ctk[3]]

\* prim::HandshakeState::mix_key_and_hash, the MixKeyHash of the Noise state
mix_key_and_hash(hs, b) == mix_key2(hs, b)

\* a split that leaves the state as it was
split_keeps_state(hs) ==
    LET k == hkdf(2, hs.chain, <<>>)
    IN [k1 |-> k[1], k2 |-> k[2], hs |-> hs]

\* returns the two transport keys and the zeroised state
split(hs) ==
    LET k == hkdf(2, hs.chain, <<>>)
    IN [k1 |-> k[1], k2 |-> k[2], hs |-> [chain |-> zero(32), hash |-> zero(32)]]

\* bytes_of(&Encrypted): the message followed by its tag
bytes_of_encrypted(e) == e.msg \o <<e.tag>>

\* Encrypted::encrypt_and_hash: returns the new state and the Encrypted
encrypt_and_hash(msg, state, key) ==
    LET aad == state.hash
        out == encrypt_in_place_detached("ct", key, nonce(0), aad, msg)
    IN [hs |-> mix_hash(state, bytes_of_encrypted(out)), out |-> out]

\* decrypt_and_hash taking the hash after the mixing as AAD
decrypt_and_hash_aad_after(self, state, key) ==
    LET st == mix_hash(state, bytes_of_encrypted(self))
        r == decrypt_in_place_detached("ct", key, nonce(0), st.hash, self.msg, self.tag)
    IN [ok |-> r.ok, hs |-> st, self |-> [self EXCEPT !.msg = r.msg]]

\* Encrypted::decrypt_and_hash: the hash is mixed before the tag is checked;
\* returns the new state, the Encrypted as left in the buffer and the result
decrypt_and_hash(self, state, key) ==
    LET aad == state.hash
        st == mix_hash(state, bytes_of_encrypted(self))
        r == decrypt_in_place_detached("ct", key, nonce(0), aad, self.msg, self.tag)
    IN [ok |-> r.ok, hs |-> st, self |-> [self EXCEPT !.msg = r.msg]]

(***************************************************************************)
(* rustyguard-crypto: keys, configurations and cookies.                    *)
(***************************************************************************)
mac1_key(spk) == hash(<< <<LABEL_MAC1>>, <<spk>> >>)
cookie_key(spk) == hash(<< <<LABEL_COOKIE>>, <<spk>> >>)

\* the pre-shared key number n; Option::unwrap_or_default gives the zero key
Psk(n) == IF n = 0 THEN zero(32) ELSE <<"psk", n>>

StaticPeerConfig_new(key, preshared_key) ==
    [key |-> key, preshared_key |-> preshared_key,
     mac1_key |-> mac1_key(key), cookie_key |-> cookie_key(key)]

StaticInitiatorConfig_new(key) ==
    LET public_key == PublicKey(key)
    IN [private_key |-> key, public_key |-> public_key,
        mac1_key |-> mac1_key(public_key), cookie_key |-> cookie_key(public_key)]

\* a socket address: IPv4 or IPv6, an address and a port
SocketAddr(v, ip, port) == [v |-> v, ip |-> ip, port |-> port]
octets(addr) == IF addr.v = 4 THEN <<"ip4", addr.ip>> ELSE <<"ip6", addr.ip>>

\* slice::copy_from_slice panics unless both slices have the same length
copy_from_slice_ok(dst_len, src) == dst_len = BytesLen(src)

\* CookieState::generate
CookieState_generate(rng) == [key |-> rnd(32, rng)]

\* CookieState::new_cookie: a = [0; 20]; the address goes to a[..4] or a[..16]
\* and the 2-byte port is copied into a[16..], which is 4 bytes long
new_cookie(self, addr) ==
    LET ip == octets(addr)
        ip_ok == copy_from_slice_ok(IF addr.v = 4 THEN 4 ELSE 16, <<ip>>)
        port == <<"le16", addr.port>>
        port_ok == copy_from_slice_ok(20 - 16, <<port>>)
        a == <<ip>> \o (IF addr.v = 4 THEN <<zero(12)>> ELSE <<>>) \o <<port, zero(2)>>
    IN [panic |-> ~(ip_ok /\ port_ok), cookie |-> mac(self.key, <<a>>)]

\* XChaCha20-Poly1305 over the cookie
encrypt_cookie(cookie, key, n, aad) ==
    encrypt_in_place_detached("xct", key, n, aad, <<cookie>>)

decrypt_cookie(cookie, key, n, aad) ==
    decrypt_in_place_detached("xct", key, n, aad, cookie.msg, cookie.tag)

(***************************************************************************)
(* rustyguard-crypto: handshake messages and their MACs.                   *)
(***************************************************************************)
MSG_FIRST == 1
MSG_SECOND == 2
MSG_DATA == 3
MSG_COOKIE == 4

IsInit(msg) == "timestamp" \in DOMAIN msg

\* AsBytes of HandshakeInit / HandshakeResp: the fields in declaration order
as_bytes(msg) ==
    IF IsInit(msg)
    THEN <<msg._type, msg.sender, msg.ephemeral_key>>
         \o bytes_of_encrypted(msg.static_key) \o bytes_of_encrypted(msg.timestamp)
         \o <<msg.mac1, msg.mac2>>
    ELSE <<msg._type, msg.sender, msg.receiver, msg.ephemeral_key>>
         \o bytes_of_encrypted(msg.empty) \o <<msg.mac1, msg.mac2>>

\* offset_of!(.., mac1) and offset_of!(.., mac2)
offset_of_mac1(msg) == IF IsInit(msg) THEN 4 + 4 + 32 + (32 + 16) + (12 + 16)
                                      ELSE 4 + 4 + 4 + 32 + (0 + 16)
offset_of_mac2(msg) == offset_of_mac1(msg) + 16

\* a mac1 that takes the mac2 field into its input as well
compute_mac1_to_mac2(msg, key) ==
    mac(key, << Take(as_bytes(msg), offset_of_mac1(msg)), msg.mac2 >>)

compute_mac1(msg, key) == mac(key, << Take(as_bytes(msg), offset_of_mac1(msg)) >>)
compute_mac2(msg, cookie) == mac(cookie, << Take(as_bytes(msg), offset_of_mac2(msg)) >>)

verify_mac1(msg, key) == compute_mac1(msg, key) = msg.mac1
verify_mac2(msg, cookie) == compute_mac2(msg, cookie) = msg.mac2

\* HasMac::verify.  res is "Rejected", "Break" (with the cookie), "Continue" or
\* "panic"; mac2_checked records whether verify_mac2 ran.
verify(msg, config, overload, cookie_state, addr) ==
    IF ~verify_mac1(msg, config.mac1_key)
    THEN [res |-> "Rejected", cookie |-> <<>>, mac2_checked |-> FALSE]
    ELSE IF overload
    THEN LET c == new_cookie(cookie_state, addr)
         IN IF c.panic
            THEN [res |-> "panic", cookie |-> <<>>, mac2_checked |-> FALSE]
            ELSE IF ~verify_mac2(msg, c.cookie)
            THEN [res |-> "Break", cookie |-> <<c.cookie>>, mac2_checked |-> TRUE]
            ELSE [res |-> "Continue", cookie |-> <<>>, mac2_checked |-> TRUE]
    ELSE [res |-> "Continue", cookie |-> <<>>, mac2_checked |-> FALSE]

\* the MACs in the other order: mac2 over the message before mac1 is filled in
protect_mac2_first(msg0, key, cookie) ==
    LET msg1 == IF cookie # <<>> THEN [msg0 EXCEPT !.mac2 = compute_mac2(msg0, cookie[1])]
                ELSE msg0
    IN [msg1 EXCEPT !.mac1 = compute_mac1(msg0, key)]

\* the MACs that close a handshake message
protect(msg0, key, cookie) ==
    LET msg1 == [msg0 EXCEPT !.mac1 = compute_mac1(msg0, key)]
    IN IF cookie # <<>> THEN [msg1 EXCEPT !.mac2 = compute_mac2(msg1, cookie[1])]
       ELSE msg1

(***************************************************************************)
(* rustyguard-crypto: Noise IKpsk2.                                        *)
(***************************************************************************)
encrypt_handshake_init(hs, initiator, peer, esk_i, now, sender, cookie) ==
    LET epk_i == PublicKey(esk_i)
        h1 == mix_hash(hs, <<peer.key>>)
        h2 == mix_hash(mix_chain(h1, <<epk_i>>), <<epk_i>>)
        es == mix_key_dh(h2, esk_i, peer.key)
        s == encrypt_and_hash(<<initiator.public_key>>, es.hs, es.k)
        ss == mix_key_dh(s.hs, initiator.private_key, peer.key)
        t == encrypt_and_hash(<<now>>, ss.hs, ss.k)
        msg == [_type |-> le32(MSG_FIRST), sender |-> le32(sender),
                ephemeral_key |-> epk_i, static_key |-> s.out, timestamp |-> t.out,
                mac1 |-> zero(16), mac2 |-> zero(16)]
    IN [hs |-> t.hs, msg |-> protect(msg, peer.mac1_key, cookie)]

\* returns the result, the state and the message as the call leaves them
decrypt_handshake_init(init, hs, receiver) ==
    LET h1 == mix_hash(hs, <<receiver.public_key>>)
        h2 == mix_hash(mix_chain(h1, <<init.ephemeral_key>>), <<init.ephemeral_key>>)
        epk_i == init.ephemeral_key
        es == mix_key_dh(h2, receiver.private_key, epk_i)
        s == decrypt_and_hash(init.static_key, es.hs, es.k)
        init1 == [init EXCEPT !.static_key = s.self]
        spk_i == s.self.msg[1]
        ss == mix_key_dh(s.hs, receiver.private_key, spk_i)
        t == decrypt_and_hash(init.timestamp, ss.hs, ss.k)
        init2 == [init1 EXCEPT !.timestamp = t.self]
    IN IF ~s.ok THEN [ok |-> FALSE, hs |-> s.hs, init |-> init1]
       ELSE [ok |-> t.ok, hs |-> t.hs, init |-> init2]

\* DecryptedHandshakeInit accessors
static_key(data) == data.static_key.msg[1]
timestamp(data) == data.timestamp.msg[1]

\* encrypt_handshake_resp with the two indices in each other's field
encrypt_handshake_resp_swapped(hs, data, esk_r, peer, sender, cookie) ==
    LET epk_r == PublicKey(esk_r)
        h1 == mix_hash(mix_chain(hs, <<epk_r>>), <<epk_r>>)
        epk_i == data.ephemeral_key
        ee == mix_dh(h1, esk_r, epk_i)
        spk_i == data.static_key.msg[1]
        se == mix_dh(ee, esk_r, spk_i)
        psk == mix_key_and_hash(se, <<peer.preshared_key>>)
        empty == encrypt_and_hash(<<>>, psk.hs, psk.k)
        msg == [_type |-> le32(MSG_SECOND), sender |-> data.sender,
                receiver |-> le32(sender), ephemeral_key |-> epk_r, empty |-> empty.out,
                mac1 |-> zero(16), mac2 |-> zero(16)]
    IN [hs |-> empty.hs, msg |-> protect(msg, peer.mac1_key, cookie)]

encrypt_handshake_resp(hs, data, esk_r, peer, sender, cookie) ==
    LET epk_r == PublicKey(esk_r)
        h1 == mix_hash(mix_chain(hs, <<epk_r>>), <<epk_r>>)
        epk_i == data.ephemeral_key
        ee == mix_dh(h1, esk_r, epk_i)
        spk_i == data.static_key.msg[1]
        se == mix_dh(ee, esk_r, spk_i)
        psk == mix_key_and_hash(se, <<peer.preshared_key>>)
        empty == encrypt_and_hash(<<>>, psk.hs, psk.k)
        msg == [_type |-> le32(MSG_SECOND), sender |-> le32(sender),
                receiver |-> data.sender, ephemeral_key |-> epk_r, empty |-> empty.out,
                mac1 |-> zero(16), mac2 |-> zero(16)]
    IN [hs |-> empty.hs, msg |-> protect(msg, peer.mac1_key, cookie)]

\* decrypt_handshake_resp with the se step keyed by the ephemeral secret instead
\* of the static one: a fault the key agreement has to expose
decrypt_handshake_resp_ephemeral_se(resp, hs, initiator, peer, esk_i) ==
    LET epk_r == resp.ephemeral_key
        h1 == mix_hash(mix_chain(hs, <<epk_r>>), <<epk_r>>)
        ee == mix_dh(h1, esk_i, epk_r)
        se == mix_dh(ee, esk_i, epk_r)
        psk == mix_key_and_hash(se, <<peer.preshared_key>>)
        e == decrypt_and_hash(resp.empty, psk.hs, psk.k)
    IN [ok |-> e.ok, hs |-> e.hs, resp |-> [resp EXCEPT !.empty = e.self]]

decrypt_handshake_resp(resp, hs, initiator, peer, esk_i) ==
    LET epk_r == resp.ephemeral_key
        h1 == mix_hash(mix_chain(hs, <<epk_r>>), <<epk_r>>)
        ee == mix_dh(h1, esk_i, epk_r)
        se == mix_dh(ee, initiator.private_key, epk_r)
        psk == mix_key_and_hash(se, <<peer.preshared_key>>)
        e == decrypt_and_hash(resp.empty, psk.hs, psk.k)
    IN [ok |-> e.ok, hs |-> e.hs, resp |-> [resp EXCEPT !.empty = e.self]]

(***************************************************************************)
(* The src/ skeleton: Config, Sessions, the fixed-layout messages and      *)
(* Sessions::recv_message.                                                 *)
(***************************************************************************)
mac2_key(spk) == hash(<< <<LABEL_COOKIE>>, <<spk>> >>)

\* Config: the static identity with its cached keys and the peer registry
Config_new(private_key, peers) ==
    [private_key |-> private_key, public_key |-> PublicKey(private_key),
     mac1_key |-> mac1_key(PublicKey(private_key)),
     mac2_key |-> mac2_key(PublicKey(private_key)), peers |-> peers]

\* Sessions: rng is the number of draws made from the StdRng
Sessions_new(config) ==
    [config |-> config, rng |-> 1, random_secret |-> rnd(32, 0), sessions |-> {}]

\* Sessions::overloaded
overloaded(self) == FALSE

\* Sessions::cookie: the MAC of the IP octets and the big-endian port
Sessions_cookie(self, socket) ==
    mac(self.random_secret, << <<octets(socket)>>, << <<"be16", socket.port>> >> >>)

\* size_of::<MacProtected<FirstMessage>>(), <MacProtected<SecondMessage>>,
\* <CookieMessage>: repr(C) structs of alignment 4 without padding
SizeOfFirst == 4 + 32 + (32 + 16) + (12 + 16) + 16 + 16
SizeOfSecond == 4 + 4 + 32 + 16 + 16 + 16
SizeOfCookie == 4 + 24 + (16 + 16)

\* bytemuck::try_from_bytes_mut::<MacProtected<FirstMessage>>: the exact size and
\* the alignment are required; the fields lie at their offsets
FirstFromBytes(rest) ==
    [inner |-> [sender |-> Slice(rest, 0, 4)[1],
                ephemeral_key |-> Slice(rest, 4, 32)[1],
                static_key |-> [msg |-> Slice(rest, 36, 32), tag |-> Slice(rest, 68, 16)[1]],
                timestamp |-> [msg |-> Slice(rest, 84, 12), tag |-> Slice(rest, 96, 16)[1]]],
     mac1 |-> Slice(rest, 112, 16)[1],
     mac2 |-> Slice(rest, 128, 16)[1]]

\* a cast that takes any buffer long enough
try_from_bytes_at_least(rest, align, size) == BytesLen(rest) >= size /\ align % 4 = 0

try_from_bytes_ok(rest, align, size) == BytesLen(rest) = size /\ align % 4 = 0

\* bytes_of(&FirstMessage) and bytes_of(&MacProtected<FirstMessage>)
bytes_of_first(m) ==
    <<m.sender, m.ephemeral_key>> \o bytes_of_encrypted(m.static_key)
    \o bytes_of_encrypted(m.timestamp)
bytes_of_protected(p) == bytes_of_first(p.inner) \o <<p.mac1, p.mac2>>

\* MacProtected::mac1 / mac2: the MAC of the bytes before the field
MacProtected_mac1(self, key) ==
    mac(key, << Take(bytes_of_protected(self), SizeOfFirst - 32) >>)
MacProtected_mac2(self, cookie) ==
    mac(cookie, << Take(bytes_of_protected(self), SizeOfFirst - 16) >>)

MacProtected_verify_mac1(self, config) == MacProtected_mac1(self, config.mac1_key) = self.mac1
MacProtected_verify_mac2(self, state, socket) ==
    MacProtected_mac2(self, Sessions_cookie(state, socket)) = self.mac2

\* CookieMessage::new sealing the cookie under the mac1 key instead of the
\* cookie key: a fault the cookie round trip has to expose
CookieMessage_new_mac1_key(receiver, state, socket, mac1) ==
    LET t == Sessions_cookie(state, socket)
        n == rnd(24, state.rng)
        cookie == encrypt_in_place_detached("xct", state.config.mac1_key, n, mac1, <<t>>)
    IN [msg |-> [receiver |-> receiver, nonce |-> n, cookie |-> cookie],
        state |-> [state EXCEPT !.rng = state.rng + 1]]

\* CookieMessage::new: returns the message and the Sessions with its rng advanced
CookieMessage_new(receiver, state, socket, mac1) ==
    LET t == Sessions_cookie(state, socket)
        n == rnd(24, state.rng)
        cookie == encrypt_in_place_detached("xct", state.config.mac2_key, n, mac1, <<t>>)
    IN [msg |-> [receiver |-> receiver, nonce |-> n, cookie |-> cookie],
        state |-> [state EXCEPT !.rng = state.rng + 1]]

bytes_of_cookie(c) == <<c.receiver, c.nonce>> \o bytes_of_encrypted(c.cookie)

\* what is left of a buffer after its first n bytes were overwritten
tail(n, b) == <<"tail", n, b>>

\* FirstMessage::process: Noise on the Init.  dh counts the X25519 operations.
process(self, config) ==
    LET hs0 == HandshakeState_default
        h1 == mix_hash(hs0, <<config.public_key>>)
        h2 == mix_hash(mix_chain(h1, <<self.ephemeral_key>>), <<self.ephemeral_key>>)
        epk_i == self.ephemeral_key
        es == mix_key_dh(h2, config.private_key, epk_i)
        s == decrypt_and_hash(self.static_key, es.hs, es.k)
        self1 == [self EXCEPT !.static_key = s.self]
        spk_i == s.self.msg[1]
        ss == mix_key_dh(s.hs, config.private_key, spk_i)
        t == decrypt_and_hash(self1.static_key, ss.hs, ss.k)
        self2 == [self1 EXCEPT !.static_key = t.self]
    IN IF ~s.ok
       THEN [ok |-> FALSE, err |-> "Unspecified", hs |-> s.hs, self |-> self1, dh |-> 1]
       ELSE IF ~t.ok
       THEN [ok |-> FALSE, err |-> "Unspecified", hs |-> t.hs, self |-> self2, dh |-> 2]
       ELSE IF spk_i \notin config.peers
       THEN [ok |-> FALSE, err |-> "Rejected", hs |-> t.hs, self |-> self2, dh |-> 2]
       ELSE [ok |-> TRUE, err |-> "", hs |-> t.hs, self |-> self2, dh |-> 2]

\* what recv_message hands back
Returned(res, err, out, self, bytes, m1, m2, dh) ==
    [res |-> res, err |-> err, out |-> out, self |-> self, bytes |-> bytes,
     mac1_checked |-> m1, mac2_checked |-> m2, dh |-> dh]

\* the cookie reply of recv_message: the CookieMessage is copied over the
\* first size_of::<CookieMessage>() bytes of msg and that slice is returned
cookie_reply(self, socket, mp, msg) ==
    LET c == CookieMessage_new(mp.inner.sender, self, socket, mp.mac1)
        cookie_msg == bytes_of_cookie(c.msg)
    IN Returned("Ok", "", cookie_msg, c.state,
                cookie_msg \o <<tail(SizeOfCookie, msg.bytes)>>, TRUE, TRUE, 0)

\* the MSG_FIRST arm of recv_message
recv_first(self, socket, msg) ==
    LET rest == Drop(msg.bytes, 4)
        mp == FirstFromBytes(rest)
        hs == process(mp.inner, self.config)
        after == <<Head(msg.bytes)>>
                 \o bytes_of_protected([mp EXCEPT !.inner = hs.self])
        over == overloaded(self)
    IN IF ~try_from_bytes_ok(rest, msg.align + 4, SizeOfFirst)
       THEN Returned("Err", "InvalidMessage", <<>>, self, msg.bytes, FALSE, FALSE, 0)
       ELSE IF ~MacProtected_verify_mac1(mp, self.config)
       THEN Returned("Err", "Rejected", <<>>, self, msg.bytes, TRUE, FALSE, 0)
       ELSE IF over /\ ~MacProtected_verify_mac2(mp, self, socket)
       THEN cookie_reply(self, socket, mp, msg)
       ELSE IF ~hs.ok
       THEN Returned("Err", hs.err, <<>>, self, after, TRUE, over, hs.dh)
       ELSE IF hs.self.static_key.msg[1] \notin self.config.peers
       THEN Returned("Err", "Rejected", <<>>, self, after, TRUE, over, hs.dh)
       ELSE Returned("panic", "todo", <<>>, self, after, TRUE, over, hs.dh)

\* Sessions::recv_message.  msg is the buffer: its address modulo 4 and its
\* bytes.  The arms of the other message types are empty and fall into todo!().
recv_message(self, socket, msg) ==
    IF msg.align # 0
    THEN Returned("Err", "Unaligned", <<>>, self, msg.bytes, FALSE, FALSE, 0)
    ELSE IF BytesLen(msg.bytes) < 4
    THEN Returned("Err", "InvalidMessage", <<>>, self, msg.bytes, FALSE, FALSE, 0)
    ELSE LET msg_type == Head(msg.bytes)[2]
         IN IF msg_type = MSG_FIRST THEN recv_first(self, socket, msg)
            ELSE IF msg_type \in {MSG_SECOND, MSG_DATA, MSG_COOKIE}
            THEN Returned("panic", "todo", <<>>, self, msg.bytes, FALSE, FALSE, 0)
            ELSE Returned("Err", "InvalidMessage", <<>>, self, msg.bytes, FALSE, FALSE, 0)

(***************************************************************************)
(* The state.  Seven runs share it: a handshake between an initiator and a *)
(* responder (Spec), a host receiving datagrams (SpecRecv), the cookie     *)
(* exchange (SpecCookie), one transport session (SpecData), the table of   *)
(* live sessions (SpecTable), the hashing of the constants (SpecHash) and  *)
(* the driver's tick loop over the timer wheel (SpecTick).                 *)
(***************************************************************************)
VARIABLES
    pc,           \* how far the handshake has come
    i_cfg,        \* the initiator's StaticInitiatorConfig
    i_peer,       \* the StaticPeerConfig the initiator holds for the responder
    i_esk,        \* the initiator's ephemeral secret, <<>> before the Init
    i_hs,         \* the initiator's HandshakeState
    i_keys,       \* <<>> or the initiator's Split() result
    r_cfg,        \* the responder's StaticInitiatorConfig
    r_peer,       \* the StaticPeerConfig the responder holds for the initiator
    r_hs,         \* the responder's HandshakeState
    r_keys,       \* <<>> or the responder's Split() result
    r_data,       \* <<>> or the DecryptedHandshakeInit
    net,          \* <<>> or the handshake message in flight
    sent,         \* what the initiator put into its Init: [now, sender], or <<>>
    tampered,     \* whether a message of this handshake was altered in flight
    p_ret,        \* <<>> or what FirstMessage::process returned for the Init
    under_load,   \* the under-load flag as the driver has set it
    b_self,       \* the Sessions of the src/ skeleton
    cookie_state, \* the CookieState of rustyguard-crypto
    secrets,      \* how many times the CookieState was generated
    rx,           \* <<>> or the last call: its function, address and message
    ret,          \* <<>> or what the last call returned
    c_stored,     \* <<>> or the cookie the initiator has cached
    c_try,        \* <<>> or the initiator's last attempt to open a Cookie Reply
    session,      \* <<>> or the transport session with the peer
    accepted,     \* the counters of the Data packets the session has accepted
    emitted,      \* the counters of the Data packets the session has emitted, in order
    slots,        \* the session table: per peer and slot, <<>> or a local_index
    d_ret,        \* <<>> or the last transport or table call and its outcome
    b2s,          \* <<>> or a BLAKE2s computation: what is hashed, and how far it is
    wheel         \* <<>> or the driver's clock and tick loop and the timers of the host

hvars == <<pc, i_cfg, i_peer, i_esk, i_hs, i_keys, r_cfg, r_peer, r_hs, r_keys,
           r_data, net, sent, tampered, p_ret>>
rvars == <<under_load, b_self, cookie_state, secrets, rx, ret, c_stored, c_try>>
dvars == <<session, accepted, emitted, slots, d_ret>>
vars == <<hvars, rvars, dvars, b2s, wheel>>

Keys == 1..NumKeys
Psks == {Psk(n) : n \in 0..NumPsk}
Stamps == {ts(n) : n \in 1..NumStamps}
Indices == 1..NumIndex

\* the host that receives: its static secret is key 1, its one registered
\* peer is the holder of key 2
HostConfig == StaticInitiatorConfig_new(1)
HostPeers == {PublicKey(2)}

\* the receive side before any datagram
RecvIdle ==
    /\ under_load = FALSE
    /\ b_self = Sessions_new(Config_new(1, HostPeers))
    /\ cookie_state = CookieState_generate(0)
    /\ secrets = 0
    /\ rx = <<>>
    /\ ret = <<>>
    /\ c_stored = <<>>
    /\ c_try = <<>>

\* no transport session and no session table
DataIdle ==
    /\ session = <<>>
    /\ accepted = {}
    /\ emitted = <<>>
    /\ slots = <<>>
    /\ d_ret = <<>>
    /\ b2s = <<>>
    /\ wheel = <<>>

\* no handshake in progress
HandshakeIdle ==
    /\ pc = "off"
    /\ i_cfg = <<>> /\ i_peer = <<>> /\ i_esk = <<>> /\ i_hs = <<>> /\ i_keys = <<>>
    /\ r_cfg = <<>> /\ r_peer = <<>> /\ r_hs = <<>> /\ r_keys = <<>> /\ r_data = <<>>
    /\ net = <<>> /\ sent = <<>> /\ tampered = FALSE /\ p_ret = <<>>

(***************************************************************************)
(* Spec: one handshake, the datagram in flight open to tampering.          *)
(***************************************************************************)
Init ==
    /\ pc = "start"
    /\ \E sk_i \in Keys, sk_r \in Keys, k_i \in Keys, k_r \in Keys,
          psk_i \in Psks, psk_r \in Psks :
          /\ i_cfg = StaticInitiatorConfig_new(sk_i)
          /\ r_cfg = StaticInitiatorConfig_new(sk_r)
          /\ i_peer = StaticPeerConfig_new(PublicKey(k_r), psk_i)
          /\ r_peer = StaticPeerConfig_new(PublicKey(k_i), psk_r)
    /\ i_esk = <<>>
    /\ i_hs = HandshakeState_default
    /\ r_hs = HandshakeState_default
    /\ i_keys = <<>>
    /\ r_keys = <<>>
    /\ r_data = <<>>
    /\ net = <<>>
    /\ sent = <<>>
    /\ tampered = FALSE
    /\ p_ret = <<>>
    /\ RecvIdle
    /\ DataIdle

\* the initiator builds and sends the Init
SendInit ==
    /\ pc = "start"
    /\ \E esk \in Keys, now \in Stamps, sender \in Indices :
          LET r == encrypt_handshake_init(i_hs, i_cfg, i_peer, esk, now, sender, <<>>)
          IN /\ i_esk' = <<esk>>
             /\ i_hs' = r.hs
             /\ net' = <<r.msg>>
             /\ sent' = <<[now |-> now, sender |-> sender]>>
    /\ pc' = "init_sent"
    /\ UNCHANGED <<i_cfg, i_peer, i_keys, r_cfg, r_peer, r_hs, r_keys, r_data, tampered,
                   p_ret, rvars, dvars, b2s, wheel>>

\* the fields of a message in flight an attacker may overwrite
TamperFields(msg) ==
    IF IsInit(msg) THEN {"static_key", "timestamp", "ephemeral_key"}
    ELSE {"empty", "ephemeral_key"}

\* the message with one field overwritten
Tampered(msg, f) ==
    CASE f = "ephemeral_key" -> [msg EXCEPT !.ephemeral_key = PublicKey(0)]
      [] f = "static_key" -> [msg EXCEPT !.static_key.tag = junk(16, 0)]
      [] f = "timestamp" -> [msg EXCEPT !.timestamp.tag = junk(16, 0)]
      [] f = "empty" -> [msg EXCEPT !.empty.tag = junk(16, 0)]
      [] f = "mac1" -> [msg EXCEPT !.mac1 = junk(16, 0)]
      [] f = "mac2" -> [msg EXCEPT !.mac2 = junk(16, 0)]
      [] f = "none" -> msg

\* an attacker alters the message in flight
Tamper ==
    /\ pc \in {"init_sent", "resp_sent"}
    /\ ~tampered
    /\ \E f \in TamperFields(net[1]) : net' = <<Tampered(net[1], f)>>
    /\ tampered' = TRUE
    /\ UNCHANGED <<pc, i_cfg, i_peer, i_esk, i_hs, i_keys, r_cfg, r_peer, r_hs, r_keys,
                   r_data, sent, p_ret, rvars, dvars, b2s, wheel>>

\* the responder runs decrypt_handshake_init from the initial Noise state
RecvInit ==
    /\ pc = "init_sent"
    /\ LET r == decrypt_handshake_init(net[1], r_hs, r_cfg)
       IN /\ r_hs' = r.hs
          /\ r_data' = IF r.ok THEN <<r.init>> ELSE <<>>
          /\ pc' = IF r.ok THEN "init_ok" ELSE "init_err"
    /\ net' = <<>>
    /\ UNCHANGED <<i_cfg, i_peer, i_esk, i_hs, i_keys, r_cfg, r_peer, r_keys, sent,
                   tampered, p_ret, rvars, dvars, b2s, wheel>>

\* a responder of the src/ skeleton runs FirstMessage::process on the Init
\* as it lies in the receive buffer
Process ==
    /\ pc = "init_sent"
    /\ LET first == FirstFromBytes(Drop(as_bytes(net[1]), 4)).inner
           config == Config_new(r_cfg.private_key, {r_peer.key})
       IN p_ret' = <<process(first, config)>>
    /\ pc' = "processed"
    /\ net' = <<>>
    /\ UNCHANGED <<i_cfg, i_peer, i_esk, i_hs, i_keys, r_cfg, r_peer, r_hs, r_keys,
                   r_data, sent, tampered, rvars, dvars, b2s, wheel>>

\* the Init the initiator sent, as an eavesdropper recorded it
Recorded ==
    encrypt_handshake_init(HandshakeState_default, i_cfg, i_peer, i_esk[1],
                           sent[1].now, sent[1].sender, <<>>).msg

\* the recorded Init reaches the responder again after the first was handled:
\* decrypt_handshake_init after an accepted Init, FirstMessage::process after
\* its first call; neither holds a timestamp of an earlier Init
ReplayInit ==
    /\ pc \in {"init_ok", "processed"}
    /\ IF pc = "init_ok"
       THEN LET r == decrypt_handshake_init(Recorded, HandshakeState_default, r_cfg)
            IN /\ pc' = IF r.ok THEN "replay_ok" ELSE "replay_err"
               /\ r_data' = IF r.ok THEN <<r.init>> ELSE r_data
               /\ p_ret' = p_ret
       ELSE LET first == FirstFromBytes(Drop(as_bytes(Recorded), 4)).inner
                config == Config_new(r_cfg.private_key, {r_peer.key})
            IN /\ p_ret' = <<process(first, config)>>
               /\ pc' = "replayed"
               /\ r_data' = r_data
    /\ UNCHANGED <<i_cfg, i_peer, i_esk, i_hs, i_keys, r_cfg, r_peer, r_hs, r_keys, net,
                   sent, tampered, rvars, dvars, b2s, wheel>>

\* the responder answers the peer it holds with a Resp
SendResp ==
    /\ pc = "init_ok"
    /\ static_key(r_data[1]) = r_peer.key
    /\ \E esk \in Keys, sender \in Indices :
          LET r == encrypt_handshake_resp(r_hs, r_data[1], esk, r_peer, sender, <<>>)
          IN /\ r_hs' = r.hs
             /\ net' = <<r.msg>>
    /\ pc' = "resp_sent"
    /\ UNCHANGED <<i_cfg, i_peer, i_esk, i_hs, i_keys, r_cfg, r_peer, r_keys, r_data,
                   sent, tampered, p_ret, rvars, dvars, b2s, wheel>>

\* the initiator runs decrypt_handshake_resp
RecvResp ==
    /\ pc = "resp_sent"
    /\ LET r == decrypt_handshake_resp(net[1], i_hs, i_cfg, i_peer, i_esk[1])
       IN /\ i_hs' = r.hs
          /\ pc' = IF r.ok THEN "resp_ok" ELSE "resp_err"
    /\ net' = <<>>
    /\ UNCHANGED <<i_cfg, i_peer, i_esk, i_keys, r_cfg, r_peer, r_hs, r_keys, r_data,
                   sent, tampered, p_ret, rvars, dvars, b2s, wheel>>

\* the initiator derives the transport keys
SplitInitiator ==
    /\ pc = "resp_ok"
    /\ i_keys = <<>>
    /\ LET r == split(i_hs)
       IN /\ i_keys' = <<[k1 |-> r.k1, k2 |-> r.k2]>>
          /\ i_hs' = r.hs
    /\ UNCHANGED <<pc, i_cfg, i_peer, i_esk, r_cfg, r_peer, r_hs, r_keys, r_data, net,
                   sent, tampered, p_ret, rvars, dvars, b2s, wheel>>

\* the responder derives the transport keys once its Resp is built
SplitResponder ==
    /\ pc \in {"resp_sent", "resp_ok", "resp_err"}
    /\ r_keys = <<>>
    /\ LET r == split(r_hs)
       IN /\ r_keys' = <<[k1 |-> r.k1, k2 |-> r.k2]>>
          /\ r_hs' = r.hs
    /\ UNCHANGED <<pc, i_cfg, i_peer, i_esk, i_hs, i_keys, r_cfg, r_peer, r_data, net,
                   sent, tampered, p_ret, rvars, dvars, b2s, wheel>>

Next ==
    \/ SendInit
    \/ Tamper
    \/ RecvInit
    \/ Process
    \/ ReplayInit
    \/ SendResp
    \/ RecvResp
    \/ SplitInitiator
    \/ SplitResponder

Spec == Init /\ [][Next]_vars

(***************************************************************************)
(* C1: when both sides hold the same pre-shared key and each other's       *)
(* correct static public key and nothing was altered in flight, every      *)
(* step of the handshake succeeds, both sides end with equal (chain, hash) *)
(* and Split() gives both the same key pair.                               *)
(***************************************************************************)
Matched ==
    /\ i_peer.key = r_cfg.public_key
    /\ r_peer.key = i_cfg.public_key
    /\ i_peer.preshared_key = r_peer.preshared_key
    /\ ~tampered

C1_KeyAgreement ==
    Matched =>
        /\ pc \notin {"init_err", "resp_err"}
        /\ (pc = "init_ok" => static_key(r_data[1]) = r_peer.key)
        /\ (pc = "resp_ok" /\ i_keys = <<>> /\ r_keys = <<>> => i_hs = r_hs)
        /\ (i_keys # <<>> /\ r_keys # <<>> => i_keys = r_keys)

C1_Witness ==
    /\ Matched
    /\ pc = "resp_ok"
    /\ i_keys # <<>>
    /\ r_keys # <<>>
    /\ i_keys = r_keys

(***************************************************************************)
(* C2: an Init built by encrypt_handshake_init by the registered peer for  *)
(* this responder and not altered in flight is accepted by                 *)
(* decrypt_handshake_init and by FirstMessage::process, and the call       *)
(* leaves the peer's static key and the timestamp it encrypted in the      *)
(* message.                                                                *)
(***************************************************************************)
Genuine ==
    /\ i_peer.key = r_cfg.public_key
    /\ r_peer.key = i_cfg.public_key
    /\ ~tampered

C2_InitAccepted ==
    Genuine =>
        /\ pc # "init_err"
        /\ (pc = "init_ok" =>
               /\ static_key(r_data[1]) = i_cfg.public_key
               /\ timestamp(r_data[1]) = sent[1].now)
        /\ (pc = "processed" =>
               /\ p_ret[1].ok
               /\ p_ret[1].self.static_key.msg = <<i_cfg.public_key>>
               /\ p_ret[1].self.timestamp.msg = <<sent[1].now>>)

(***************************************************************************)
(* SpecRecv: a host whose driver sets the under-load flag, rotates the     *)
(* cookie secret and hands received datagrams to HasMac::verify            *)
(* (rustyguard-crypto) and to Sessions::recv_message (the src/ skeleton).  *)
(***************************************************************************)
AddrIds == 1..NumAddr
Addr(n) == IF n % 2 = 1 THEN SocketAddr(4, n, 1) ELSE SocketAddr(6, n, 1)

\* an Init for the host from the holder of secret s with the sender index
\* sender, closed with the cookie c
InitFrom(s, sender, c) ==
    encrypt_handshake_init(HandshakeState_default, StaticInitiatorConfig_new(s),
                           StaticPeerConfig_new(HostConfig.public_key, Psk(0)),
                           1, ts(1), sender, c).msg

\* the Resp of the registered peer to an Init of the host
RespTo(c) ==
    LET i == encrypt_handshake_init(HandshakeState_default, HostConfig,
                                    StaticPeerConfig_new(PublicKey(2), Psk(0)),
                                    1, ts(1), 1, <<>>)
        d == decrypt_handshake_init(i.msg, HandshakeState_default,
                                    StaticInitiatorConfig_new(2))
    IN encrypt_handshake_resp(d.hs, d.init, 1,
                              StaticPeerConfig_new(HostConfig.public_key, Psk(0)),
                              1, c).msg

\* the cookie a sender holds: none (a = 0) or the one for address a under the
\* g-th cookie secret
HeldCookie(a, g) ==
    IF a = 0 THEN <<>> ELSE <<new_cookie(CookieState_generate(g), Addr(a)).cookie>>

\* an Init in the layout of the src/ skeleton, its MACs computed the way
\* MacProtected computes them; a = 0 leaves mac2 zero
SkeletonInit(s, sender, a, f, self) ==
    LET inner == FirstFromBytes(Drop(as_bytes(InitFrom(s, sender, <<>>)), 4)).inner
        mp0 == [inner |-> inner, mac1 |-> zero(16), mac2 |-> zero(16)]
        mp1 == [mp0 EXCEPT !.mac1 = MacProtected_mac1(mp0, mac1_key(self.config.public_key))]
        mp2 == IF a = 0 THEN mp1
               ELSE [mp1 EXCEPT !.mac2 = MacProtected_mac2(mp1, Sessions_cookie(self, Addr(a)))]
    IN Tampered(mp2, f)

BufKinds == {"empty", "short", "unknown0", "unknown5", "crate_init", "init", "resp",
             "data", "cookie", "reply"}
Lens == {"cut", "exact", "long"}
MacFields == {"none", "mac1", "mac2"}

\* a buffer 16 bytes too short, as it is, or 4 bytes too long
Resize(b, l) ==
    CASE l = "exact" -> b
      [] l = "long" -> b \o <<zero(4)>>
      [] l = "cut" -> Take(b, BytesLen(b) - 16)

\* the datagrams the host is handed
Buffer(kind, s, a, g, f, l, self) ==
    CASE kind = "empty" -> <<>>
      [] kind = "short" -> <<junk(2, 0)>>
      [] kind = "unknown0" -> <<le32(0)>>
      [] kind = "unknown5" -> <<le32(5), zero(28)>>
      [] kind = "crate_init" -> Resize(as_bytes(Tampered(InitFrom(s, 1, HeldCookie(a, g)), f)), l)
      [] kind = "init" ->
            Resize(<<le32(MSG_FIRST)>> \o bytes_of_protected(SkeletonInit(s, 1, a, f, self)), l)
      [] kind = "resp" -> Resize(as_bytes(Tampered(RespTo(HeldCookie(a, g)), f)), l)
      [] kind = "data" -> Resize(<<le32(MSG_DATA), le32(1), zero(8), junk(16, 0)>>, l)
      [] kind = "cookie" ->
            Resize(<<le32(MSG_COOKIE)>>
                   \o bytes_of_cookie(CookieMessage_new(le32(1), self, Addr(1), zero(16)).msg), l)
      [] kind = "reply" ->
            bytes_of_cookie(CookieMessage_new(le32(1), self, Addr(1), zero(16)).msg)

InitRecv ==
    /\ HandshakeIdle
    /\ RecvIdle
    /\ DataIdle

\* the driver sets or clears the under-load flag
SetUnderLoad ==
    /\ rx = <<>>
    /\ under_load' = ~under_load
    /\ UNCHANGED <<b_self, cookie_state, secrets, rx, ret, c_stored, c_try, hvars, dvars, b2s, wheel>>

\* the driver rotates the cookie secret: CookieState::generate
Generate ==
    /\ rx = <<>>
    /\ secrets < MaxSecrets
    /\ secrets' = secrets + 1
    /\ cookie_state' = CookieState_generate(secrets + 1)
    /\ UNCHANGED <<under_load, b_self, rx, ret, c_stored, c_try, hvars, dvars, b2s, wheel>>

\* the driver hands an Init or a Resp to HasMac::verify with its flag
Verify ==
    /\ rx = <<>>
    /\ \E kind \in {"init", "resp"}, s \in Keys, a \in 0..NumAddr, g \in 0..secrets,
          f \in MacFields, from \in AddrIds :
          LET msg == Tampered(IF kind = "init" THEN InitFrom(s, 1, HeldCookie(a, g))
                                               ELSE RespTo(HeldCookie(a, g)), f)
          IN /\ rx' = <<[fn |-> "verify", addr |-> Addr(from), load |-> under_load,
                         align |-> 0, bytes |-> as_bytes(msg), msg |-> <<msg>>,
                         self |-> b_self, state |-> cookie_state]>>
             /\ ret' = <<verify(msg, HostConfig, under_load, cookie_state, Addr(from))>>
    /\ UNCHANGED <<under_load, b_self, cookie_state, secrets, c_stored, c_try, hvars, dvars, b2s, wheel>>

\* the driver hands a datagram to Sessions::recv_message
Recv ==
    /\ rx = <<>>
    /\ \E kind \in BufKinds, s \in Keys, a \in 0..NumAddr, g \in 0..secrets,
          f \in MacFields, l \in Lens, align \in 0..3, from \in AddrIds :
          \E bytes \in {Buffer(kind, s, a, g, f, l, b_self)} :
          \E r \in {recv_message(b_self, Addr(from), [align |-> align, bytes |-> bytes])} :
             /\ rx' = <<[fn |-> "recv_message", addr |-> Addr(from), load |-> under_load,
                         align |-> align, bytes |-> bytes, msg |-> <<>>,
                         self |-> b_self, state |-> cookie_state]>>
             /\ ret' = <<r>>
             /\ b_self' = r.self
    /\ UNCHANGED <<under_load, cookie_state, secrets, c_stored, c_try, hvars, dvars, b2s, wheel>>

\* the driver has dealt with the outcome and turns to the next datagram
Handled ==
    /\ rx # <<>>
    /\ ret[1].res # "panic"
    /\ rx' = <<>>
    /\ ret' = <<>>
    /\ c_try' = <<>>
    /\ UNCHANGED <<under_load, b_self, cookie_state, secrets, c_stored, hvars, dvars, b2s, wheel>>

NextRecv ==
    \/ SetUnderLoad
    \/ Generate
    \/ Verify
    \/ Recv
    \/ Handled

SpecRecv == InitRecv /\ [][NextRecv]_vars

\* the last call was HasMac::verify / Sessions::recv_message
IsVerify == rx # <<>> /\ rx[1].fn = "verify"
IsRecv == rx # <<>> /\ rx[1].fn = "recv_message"

\* the type tag of a buffer of at least four bytes
TypeTag(bytes) == Head(bytes)[2]

\* the buffer handed to recv_message holds a handshake message of the right
\* size at an aligned address
IsAlignedOfSize(call, tag, size) ==
    /\ call.align = 0
    /\ BytesLen(call.bytes) = size
    /\ TypeTag(call.bytes) = tag

\* the Init of the last recv_message call as the skeleton lays it out
RecvdInit == FirstFromBytes(Drop(rx[1].bytes, 4))

\* mac1 of the buffer is the MAC of the bytes before it under the host's key:
\* for an Init as MacProtected computes it, for a Resp over the whole prefix
RecvdMac1Valid ==
    IF TypeTag(rx[1].bytes) = MSG_FIRST
    THEN MacProtected_verify_mac1(RecvdInit, rx[1].self.config)
    ELSE Slice(rx[1].bytes, 4 + SizeOfSecond - 32, 16)
         = <<mac(rx[1].self.config.mac1_key, << Take(rx[1].bytes, 4 + SizeOfSecond - 32) >>)>>

\* the cookie of the crate for the address the last message came from
CookieOfCall == new_cookie(rx[1].state, rx[1].addr).cookie

(***************************************************************************)
(* C12: an Init that reaches the responder again after it was handled, so  *)
(* with a timestamp equal to the one of the earlier Init, is rejected with *)
(* Replay: decrypt_handshake_init does not accept it a second time and     *)
(* FirstMessage::process answers it with the Replay error.                 *)
(***************************************************************************)
C12_ReplayRejected ==
    Genuine =>
        /\ pc # "replay_ok"
        /\ (pc = "replayed" => ~p_ret[1].ok /\ p_ret[1].err = "Replay")

(***************************************************************************)
(* C3: an Init or Resp whose mac1 is not the MAC of the bytes before it    *)
(* under the host's mac1 key is rejected with Rejected; no mac2 check, no  *)
(* Cookie Reply, no DH and no change of state or buffer happens, under     *)
(* load or not.                                                            *)
(***************************************************************************)
C3_Mac1First ==
    /\ (IsVerify /\ ~verify_mac1(rx[1].msg[1], HostConfig.mac1_key)) =>
           /\ ret[1].res = "Rejected"
           /\ ~ret[1].mac2_checked
           /\ ret[1].cookie = <<>>
    /\ (/\ IsRecv
        /\ \/ IsAlignedOfSize(rx[1], MSG_FIRST, 4 + SizeOfFirst)
           \/ IsAlignedOfSize(rx[1], MSG_SECOND, 4 + SizeOfSecond)
        /\ ~RecvdMac1Valid) =>
           /\ ret[1].res = "Err"
           /\ ret[1].err = "Rejected"
           /\ ~ret[1].mac2_checked
           /\ ret[1].out = <<>>
           /\ ret[1].dh = 0
           /\ ret[1].self = rx[1].self
           /\ ret[1].bytes = rx[1].bytes

(***************************************************************************)
(* C4: under load, an Init with a valid mac1 and an invalid mac2 reaches   *)
(* no X25519 step and changes no session state, and the caller is handed   *)
(* a Cookie Reply, not an error.                                           *)
(***************************************************************************)
C4_CookieReplyInsteadOfDH ==
    /\ (/\ IsVerify
        /\ rx[1].load
        /\ IsInit(rx[1].msg[1])
        /\ verify_mac1(rx[1].msg[1], HostConfig.mac1_key)
        /\ ~verify_mac2(rx[1].msg[1], CookieOfCall)) =>
           /\ ret[1].res = "Break"
           /\ ret[1].cookie = <<CookieOfCall>>
    /\ (/\ IsRecv
        /\ rx[1].load
        /\ IsAlignedOfSize(rx[1], MSG_FIRST, 4 + SizeOfFirst)
        /\ RecvdMac1Valid
        /\ ~MacProtected_verify_mac2(RecvdInit, rx[1].self, rx[1].addr)) =>
           /\ ret[1].res = "Ok"
           /\ ret[1].out # <<>>
           /\ ret[1].dh = 0
           /\ ret[1].self.sessions = rx[1].self.sessions

(***************************************************************************)
(* C5: mac2 is checked exactly when the driver's under-load flag is set:   *)
(* with the flag clear a message with a valid mac1 goes on to handshake    *)
(* processing whatever its mac2; with the flag set it goes on only if its  *)
(* mac2 is the MAC under the cookie of its source address.                 *)
(***************************************************************************)
C5_Mac2IffFlag ==
    /\ (IsVerify /\ verify_mac1(rx[1].msg[1], HostConfig.mac1_key)) =>
           /\ ret[1].mac2_checked = rx[1].load
           /\ (~rx[1].load => ret[1].res = "Continue")
           /\ (rx[1].load /\ ret[1].res = "Continue" =>
                  verify_mac2(rx[1].msg[1], CookieOfCall))
    /\ (/\ IsRecv
        /\ IsAlignedOfSize(rx[1], MSG_FIRST, 4 + SizeOfFirst)
        /\ RecvdMac1Valid) =>
           /\ ret[1].mac2_checked = rx[1].load
           /\ (~rx[1].load => ret[1].dh > 0)
           /\ (rx[1].load /\ ret[1].dh > 0 =>
                  MacProtected_verify_mac2(RecvdInit, rx[1].self, rx[1].addr))

(***************************************************************************)
(* C7: under load, an Init whose mac2 was computed from a cookie passes    *)
(* verification when that cookie is the one for its source address under   *)
(* the current cookie secret, and is answered with a Cookie Reply when it  *)
(* comes from another address or the secret has been regenerated.          *)
(***************************************************************************)
C7_CookieAdmits ==
    (/\ IsVerify
     /\ rx[1].load
     /\ IsInit(rx[1].msg[1])
     /\ verify_mac1(rx[1].msg[1], HostConfig.mac1_key)
     /\ rx[1].msg[1].mac2[1] = "mac") =>
        IF rx[1].msg[1].mac2 = compute_mac2(rx[1].msg[1], CookieOfCall)
        THEN ret[1].res = "Continue"
        ELSE ret[1].res = "Break"

(***************************************************************************)
(* C9: recv_message never panics: every call returns an event or an error. *)
(***************************************************************************)
C9_NeverPanics == IsRecv => ret[1].res \in {"Ok", "Err"}

(***************************************************************************)
(* C10: recv_message returns a malformed-input error and changes neither   *)
(* the state nor the buffer when the buffer is unaligned, shorter than 4   *)
(* bytes, carries a type tag outside 1..4, or holds an Init that is not    *)
(* 148 bytes, a Resp that is not 92 bytes or a Cookie that is not 64.      *)
(***************************************************************************)
Malformed(call) ==
    \/ call.align # 0
    \/ BytesLen(call.bytes) < 4
    \/ TypeTag(call.bytes) \notin {MSG_FIRST, MSG_SECOND, MSG_DATA, MSG_COOKIE}
    \/ TypeTag(call.bytes) = MSG_FIRST /\ BytesLen(call.bytes) # 4 + SizeOfFirst
    \/ TypeTag(call.bytes) = MSG_SECOND /\ BytesLen(call.bytes) # 4 + SizeOfSecond
    \/ TypeTag(call.bytes) = MSG_COOKIE /\ BytesLen(call.bytes) # 4 + SizeOfCookie

C10_MalformedRejected ==
    (IsRecv /\ Malformed(rx[1])) =>
        /\ ret[1].res = "Err"
        /\ ret[1].err \in {"InvalidMessage", "Unaligned"}
        /\ ret[1].self = rx[1].self
        /\ ret[1].bytes = rx[1].bytes

\* what the Noise steps up to enc_static give for the Init of the last call
RecvdStatic == decrypt_handshake_init(RecvdInit.inner, HandshakeState_default, HostConfig)

(***************************************************************************)
(* C11: an Init that passes the MAC checks and whose enc_static decrypts   *)
(* to a static key absent from the peer registry is rejected as coming     *)
(* from an unknown peer (Error::Rejected, the error of a failed lookup):   *)
(* nothing is handed back to send and the Sessions are left as they were.  *)
(***************************************************************************)
C11_UnknownPeerRejected ==
    (/\ IsRecv
     /\ IsAlignedOfSize(rx[1], MSG_FIRST, 4 + SizeOfFirst)
     /\ RecvdMac1Valid
     /\ RecvdStatic.init.static_key.msg[1] \notin rx[1].self.config.peers
     /\ RecvdStatic.init.static_key.msg # RecvdInit.inner.static_key.msg) =>
        /\ ret[1].res = "Err"
        /\ ret[1].err = "Rejected"
        /\ ret[1].out = <<>>
        /\ ret[1].self = rx[1].self

(***************************************************************************)
(* C19: receipt of a Cookie Reply returns to the caller and changes        *)
(* neither the sessions nor the configuration of the host, whether or not  *)
(* the reply decrypts.                                                     *)
(***************************************************************************)
C19_CookieReplyOnlyCookie ==
    (IsRecv /\ IsAlignedOfSize(rx[1], MSG_COOKIE, 4 + SizeOfCookie)) =>
        /\ ret[1].res \in {"Ok", "Err"}
        /\ ret[1].self.sessions = rx[1].self.sessions
        /\ ret[1].self.config = rx[1].self.config

(***************************************************************************)
(* C20: the fixed layouts have no padding: the bodies after the type tag   *)
(* are 144 (Init), 88 (Resp) and 60 (Cookie) bytes, the sum of their       *)
(* fields, so 148, 92 and 64 with the tag, and the messages as built have  *)
(* those sizes; alignment is 4, so the body after the 4-byte tag of an     *)
(* aligned buffer is aligned, and an Init body is accepted by the cast     *)
(* only at exactly its size.                                               *)
(***************************************************************************)
C20_Layouts ==
    /\ SizeOfFirst = 144 /\ SizeOfSecond = 88 /\ SizeOfCookie = 60
    /\ BytesLen(as_bytes(InitFrom(2, 1, <<>>))) = 4 + SizeOfFirst
    /\ 4 + SizeOfFirst = 148
    /\ BytesLen(as_bytes(RespTo(<<>>))) = 4 + SizeOfSecond
    /\ 4 + SizeOfSecond = 92
    /\ 4 + BytesLen(bytes_of_cookie(CookieMessage_new(le32(1), b_self, Addr(1),
                                                      zero(16)).msg)) = 4 + SizeOfCookie
    /\ 4 + SizeOfCookie = 64
    /\ (IsRecv /\ ret[1].mac1_checked) =>
          /\ rx[1].align = 0
          /\ (rx[1].align + 4) % 4 = 0
          /\ BytesLen(rx[1].bytes) = 4 + SizeOfFirst
          /\ BytesLen(bytes_of_protected(RecvdInit)) = SizeOfFirst
    /\ (/\ IsRecv
        /\ BytesLen(rx[1].bytes) >= 4
        /\ rx[1].align = 0
        /\ TypeTag(rx[1].bytes) = MSG_FIRST
        /\ BytesLen(rx[1].bytes) # 4 + SizeOfFirst) =>
          /\ ret[1].res = "Err"
          /\ ret[1].err = "InvalidMessage"

\* an Init of 148 bytes at an aligned address gets through the cast
C20_Witness ==
    /\ IsRecv
    /\ ret[1].mac1_checked
    /\ rx[1].align = 0
    /\ BytesLen(rx[1].bytes) = 148
    /\ TypeTag(rx[1].bytes) = MSG_FIRST

(***************************************************************************)
(* SpecCookie: the responder answers an Init with a Cookie Reply the way   *)
(* recv_message builds it, and the initiator opens the reply with          *)
(* decrypt_cookie.                                                         *)
(***************************************************************************)
InitCookie ==
    /\ HandshakeIdle
    /\ RecvIdle
    /\ DataIdle

\* the cookie branch of recv_message on an Init with a valid mac1
CookieReply ==
    /\ rx = <<>>
    /\ b_self.rng <= MaxReplies
    /\ \E s \in Keys, sender \in Indices, from \in AddrIds :
       \E mp \in {SkeletonInit(s, sender, 0, "none", b_self)} :
       \E bytes \in {<<le32(MSG_FIRST)>> \o bytes_of_protected(mp)} :
       \E r \in {cookie_reply(b_self, Addr(from), mp, [align |-> 0, bytes |-> bytes])} :
          /\ MacProtected_verify_mac1(mp, b_self.config)
          /\ rx' = <<[fn |-> "cookie_reply", addr |-> Addr(from), load |-> under_load,
                      align |-> 0, bytes |-> bytes, msg |-> <<mp>>,
                      self |-> b_self, state |-> cookie_state]>>
          /\ ret' = <<r>>
          /\ b_self' = r.self
    /\ UNCHANGED <<under_load, cookie_state, secrets, c_stored, c_try, hvars, dvars, b2s, wheel>>

\* the initiator opens the reply with the cookie key of the peer with secret k
\* and, as AAD, the mac1 of the Init it sent as s with the index sender; a
\* cookie that opens is stored
RecvCookie ==
    /\ rx # <<>>
    /\ rx[1].fn = "cookie_reply"
    /\ c_try = <<>>
    /\ \E k \in Keys, s \in Keys, sender \in Indices :
          LET reply == ret[1].out
              cookie == [msg |-> <<reply[3]>>, tag |-> reply[4]]
              key == cookie_key(PublicKey(k))
              aad == SkeletonInit(s, sender, 0, "none", rx[1].self).mac1
              d == decrypt_cookie(cookie, key, reply[2], aad)
          IN /\ c_try' = <<[key |-> key, aad |-> aad, ok |-> d.ok, before |-> c_stored]>>
             /\ c_stored' = IF d.ok THEN <<d.msg[1]>> ELSE c_stored
    /\ UNCHANGED <<under_load, b_self, cookie_state, secrets, rx, ret, hvars, dvars, b2s, wheel>>

NextCookie ==
    \/ CookieReply
    \/ RecvCookie
    \/ Handled

SpecCookie == InitCookie /\ [][NextCookie]_vars

(***************************************************************************)
(* C6: a Cookie Reply made for an Init opens on the initiator with the     *)
(* key cookie_key(responder's static public key), the reply's nonce and    *)
(* the mac1 of that Init as AAD, and gives the MAC of the source address   *)
(* under the responder's secret; with the mac1 of another message or       *)
(* another key it does not open and no cookie is stored.                   *)
(***************************************************************************)
C6_CookieRoundTrip ==
    c_try # <<>> =>
        IF /\ c_try[1].key = cookie_key(rx[1].self.config.public_key)
           /\ c_try[1].aad = rx[1].msg[1].mac1
        THEN /\ c_try[1].ok
             /\ c_stored = <<Sessions_cookie(rx[1].self, rx[1].addr)>>
        ELSE /\ ~c_try[1].ok
             /\ c_stored = c_try[1].before

C6_Witness ==
    /\ c_try # <<>>
    /\ c_try[1].ok
    /\ c_try[1].before # <<>>
    /\ c_stored = <<Sessions_cookie(rx[1].self, rx[1].addr)>>
    /\ c_stored # c_try[1].before

(***************************************************************************)
(* C8: the Cookie Reply recv_message hands back for an Init is 64 bytes:   *)
(* the little-endian type tag 4, the sender index of the Init as receiver, *)
(* the 24-byte nonce and the 32-byte encrypted cookie.                     *)
(***************************************************************************)
C8_CookieReplyLayout ==
    (rx # <<>> /\ rx[1].fn = "cookie_reply") =>
        /\ BytesLen(ret[1].out) = 64
        /\ Slice(ret[1].out, 0, 4) = <<le32(MSG_COOKIE)>>
        /\ Slice(ret[1].out, 4, 4) = <<rx[1].msg[1].inner.sender>>
        /\ BytesLen(Slice(ret[1].out, 8, 24)) = 24
        /\ BytesLen(Drop(ret[1].out, 32)) = 32

(***************************************************************************)
(* Transport (SpecData).  Nothing under src/ handles a Data packet:        *)
(* recv_message leaves MSG_DATA to todo!() and examples/tun.rs only calls  *)
(* send_message.  The session and its two operations follow the transport *)
(* engine of the specification (section 4.6).                              *)
(***************************************************************************)
\* received counters are drawn from 0..NumCounters-1 and from the same many
\* counters starting at the last position of the window
NumCounters == 2
\* a session sends at most MaxSends times
MaxSends == 3

\* width of the sliding replay window
REPLAY_WINDOW == 2048
\* 2^64 - 2^13 as a u64 of four 16-bit limbs, most significant first
REJECT_AFTER_MESSAGES == <<65535, 65535, 65535, 57344>>

u64_lt(a, b) == \E i \in 1..4 : a[i] < b[i] /\ \A j \in 1..(i - 1) : a[j] = b[j]

\* a + 1 in 64 bits
u64_inc(a) ==
    LET c4 == (a[4] + 1) \div 65536
        c3 == (a[3] + c4) \div 65536
        c2 == (a[2] + c3) \div 65536
    IN <<(a[1] + c2) % 65536, (a[2] + c3) % 65536, (a[3] + c4) % 65536,
         (a[4] + 1) % 65536>>

\* a Data packet: type, receiver, counter, AEAD_Seal(key, counter, {}, payload)
Data(receiver, key, counter, payload) ==
    LET e == encrypt_in_place_detached("ct", key, nonce(counter), <<>>, payload)
    IN [type |-> MSG_DATA, receiver |-> receiver, counter |-> counter,
        msg |-> e.msg, tag |-> e.tag]

DataLen(pkt) == 4 + 4 + 8 + BytesLen(pkt.msg) + BytesLen(<<pkt.tag>>)

\* the window check with the bitmap alone
replayed_bitmap_only(s, counter) == counter \in s.window

\* the replay window turns the counter away
replayed(s, counter) ==
    counter + (REPLAY_WINDOW - 1) < s.H \/ counter \in s.window

\* the bit is marked and H raised, the bits that fall out of the window stay
shift_keeps_bits(s, counter) ==
    [s EXCEPT !.H = IF s.H < counter THEN counter ELSE s.H,
              !.window = s.window \cup {counter}]

\* the window is shifted so that H is the highest counter, and the bit is marked
shift(s, counter) ==
    LET H == IF s.H < counter THEN counter ELSE s.H
    IN [s EXCEPT !.H = H,
                 !.window = {c \in s.window \cup {counter} :
                                c + (REPLAY_WINDOW - 1) >= H}]

\* the endpoint is learnt once and kept
roam_first_only(s, addr) ==
    IF s.endpoint = <<>> THEN [s EXCEPT !.endpoint = <<addr>>] ELSE s

\* roaming: the endpoint becomes the source address
roam(s, addr) == [s EXCEPT !.endpoint = <<addr>>]

\* Receive that commits the window before AEAD_Open is tried
recv_data_commits_first(s, addr, pkt) ==
    IF DataLen(pkt) < 32 \/ (DataLen(pkt) - 32) % 16 # 0
    THEN [res |-> "Malformed", session |-> s]
    ELSE IF pkt.receiver # s.local_index
    THEN [res |-> "UnknownSession", session |-> s]
    ELSE IF replayed(s, pkt.counter)
    THEN [res |-> "Replay", session |-> s]
    ELSE LET d == decrypt_in_place_detached("ct", s.rx_key, nonce(pkt.counter), <<>>,
                                            pkt.msg, pkt.tag)
         IN IF ~d.ok
            THEN [res |-> "BadTag", session |-> shift(s, pkt.counter)]
            ELSE [res |-> "Ok", session |-> roam(shift(s, pkt.counter), addr)]

\* Receive: session lookup, replay window, AEAD_Open, then the window and the
\* endpoint are committed
recv_data(s, addr, pkt) ==
    IF DataLen(pkt) < 32 \/ (DataLen(pkt) - 32) % 16 # 0
    THEN [res |-> "Malformed", session |-> s]
    ELSE IF pkt.receiver # s.local_index
    THEN [res |-> "UnknownSession", session |-> s]
    ELSE IF replayed(s, pkt.counter)
    THEN [res |-> "Replay", session |-> s]
    ELSE LET d == decrypt_in_place_detached("ct", s.rx_key, nonce(pkt.counter), <<>>,
                                            pkt.msg, pkt.tag)
         IN IF ~d.ok
            THEN [res |-> "BadTag", session |-> s]
            ELSE [res |-> "Ok", session |-> roam(shift(s, pkt.counter), addr)]

\* the counter taken is past REJECT_AFTER_MESSAGES
exhausted_past(n) == u64_lt(REJECT_AFTER_MESSAGES, n)

\* the counter taken is at or past REJECT_AFTER_MESSAGES
exhausted(n) == ~u64_lt(n, REJECT_AFTER_MESSAGES)

\* Send: the counter is taken; at REJECT_AFTER_MESSAGES nothing is emitted
send_data(s, payload) ==
    LET n == s.tx_counter
    IN IF exhausted(n)
       THEN [res |-> "NeedsHandshake", out |-> <<>>, session |-> s]
       ELSE [res |-> "Datagram", out |-> <<Data(s.remote_index, s.tx_key, n, payload)>>,
             session |-> [s EXCEPT !.tx_counter = u64_inc(n)]]

RxCounters ==
    (0..(NumCounters - 1)) \cup ((REPLAY_WINDOW - 1)..(REPLAY_WINDOW - 2 + NumCounters))

\* where a session's tx_counter may stand: fresh, before a carry into the
\* next limb, and MaxSends - 1 sends before REJECT_AFTER_MESSAGES
TxStarts ==
    {<<0, 0, 0, 0>>, <<0, 0, 0, 65535>>,
     <<65535, 65535, 65535, 57344 - (MaxSends - 1)>>}

\* what arrives: the peer's packet, one with a forged tag, a truncated one,
\* one for another receiver index
Arriving(kind, s, counter) ==
    LET pkt == Data(s.local_index, s.rx_key, counter, <<junk(16, 1)>>)
    IN CASE kind = "genuine" -> pkt
         [] kind = "forged" -> [pkt EXCEPT !.tag = junk(16, 0)]
         [] kind = "short" -> [pkt EXCEPT !.tag = junk(8, 0)]
         [] kind = "unknown" -> [pkt EXCEPT !.receiver = 0]

InitData ==
    /\ HandshakeIdle
    /\ RecvIdle
    /\ \E start \in TxStarts :
          session = <<[local_index |-> 1, remote_index |-> 2,
                       tx_key |-> rnd(32, 1), rx_key |-> rnd(32, 2),
                       tx_counter |-> start, H |-> 0, window |-> {},
                       endpoint |-> <<>>]>>
    /\ accepted = {}
    /\ emitted = <<>>
    /\ slots = <<>>
    /\ d_ret = <<>>
    /\ b2s = <<>>
    /\ wheel = <<>>

\* a Data datagram arrives from an address
RecvData ==
    /\ d_ret = <<>>
    /\ \E kind \in {"genuine", "forged", "short", "unknown"}, counter \in RxCounters, from \in AddrIds :
          LET r == recv_data(session[1], Addr(from), Arriving(kind, session[1], counter))
          IN /\ session' = <<r.session>>
             /\ accepted' = IF r.res = "Ok" THEN accepted \cup {counter} ELSE accepted
             /\ d_ret' = <<[fn |-> "recv", kind |-> kind, counter |-> counter,
                            addr |-> Addr(from), res |-> r.res, before |-> session[1],
                            seen |-> accepted]>>
    /\ UNCHANGED <<emitted, slots, hvars, rvars, b2s, wheel>>

\* the host sends a payload on the session
SendData ==
    /\ d_ret = <<>>
    /\ Len(emitted) < MaxSends
    /\ LET r == send_data(session[1], <<junk(16, 2)>>)
       IN /\ session' = <<r.session>>
          /\ emitted' = IF r.out = <<>> THEN emitted ELSE Append(emitted, r.out[1].counter)
          /\ d_ret' = <<[fn |-> "send", kind |-> "", counter |-> session[1].tx_counter,
                         addr |-> <<>>, res |-> r.res, before |-> session[1],
                         seen |-> accepted]>>
    /\ UNCHANGED <<accepted, slots, hvars, rvars, b2s, wheel>>

\* the caller has looked at the outcome
Done ==
    /\ d_ret # <<>>
    /\ d_ret' = <<>>
    /\ UNCHANGED <<session, accepted, emitted, slots, hvars, rvars, b2s, wheel>>

NextData ==
    \/ RecvData
    \/ SendData
    \/ Done

SpecData == InitData /\ [][NextData]_vars

IsRecvData == d_ret # <<>> /\ d_ret[1].fn = "recv"
IsSendData == d_ret # <<>> /\ d_ret[1].fn = "send"

(***************************************************************************)
(* C13: under the receive rule no counter is accepted twice, and no        *)
(* accepted counter c satisfies c <= H - 2047, H being the highest         *)
(* accepted counter when the packet arrives.                               *)
(***************************************************************************)
C13_WindowAccepts ==
    (IsRecvData /\ d_ret[1].res = "Ok") =>
        /\ d_ret[1].counter \notin d_ret[1].seen
        /\ ~(d_ret[1].counter <= d_ret[1].before.H - (REPLAY_WINDOW - 1))

\* C13 as the receive rule has it: no counter is accepted twice, and no
\* accepted counter c satisfies c < H - 2047 (c + 2047 < H is what is rejected)
C13_WindowAcceptsAmended ==
    (IsRecvData /\ d_ret[1].res = "Ok") =>
        /\ d_ret[1].counter \notin d_ret[1].seen
        /\ ~(d_ret[1].counter < d_ret[1].before.H - (REPLAY_WINDOW - 1))

\* a counter at the last position of the window, H - 2047, is accepted
C13_Witness ==
    /\ IsRecvData
    /\ d_ret[1].res = "Ok"
    /\ d_ret[1].seen # {}
    /\ d_ret[1].counter + (REPLAY_WINDOW - 1) = d_ret[1].before.H

(***************************************************************************)
(* C14: for any sequence of received Data packets the set of accepted      *)
(* counters has no element c with max - c > 2047, max being the highest    *)
(* accepted counter.                                                       *)
(***************************************************************************)
C14_AcceptedSpan ==
    \A c \in accepted : \A max \in accepted : ~(max - c > REPLAY_WINDOW - 1)

\* C14 for the counters the window still marks: they are accepted counters,
\* H is the highest accepted counter, and none has H - c > 2047
C14_WindowSpanAmended ==
    /\ session[1].window \subseteq accepted
    /\ \A c \in accepted : c <= session[1].H
    /\ accepted # {} => session[1].H \in session[1].window
    /\ \A c \in session[1].window : ~(session[1].H - c > REPLAY_WINDOW - 1)

\* the window has moved past an accepted counter and still marks two others
C14_Witness ==
    /\ accepted \ session[1].window # {}
    /\ Cardinality(session[1].window) >= 2
    /\ session[1].H - (REPLAY_WINDOW - 1) \in session[1].window

(***************************************************************************)
(* C15: a Data packet rejected as Replay or as BadTag leaves the session   *)
(* (H, window, tx_counter, endpoint) exactly as it was; a packet that was  *)
(* accepted before is rejected as Replay, and a genuine packet whose       *)
(* counter was not accepted and is not behind the window is accepted,      *)
(* whatever forged packets carried that counter before.                    *)
(***************************************************************************)
C15_RejectedUnchanged ==
    IsRecvData =>
        /\ (d_ret[1].res \in {"Replay", "BadTag"} => session[1] = d_ret[1].before)
        /\ (d_ret[1].kind = "genuine" /\ d_ret[1].counter \in d_ret[1].seen =>
               d_ret[1].res = "Replay")
        /\ ((/\ d_ret[1].kind = "genuine"
             /\ d_ret[1].counter \notin d_ret[1].seen
             /\ d_ret[1].counter + (REPLAY_WINDOW - 1) >= d_ret[1].before.H) =>
               d_ret[1].res = "Ok")
        /\ (d_ret[1].kind = "forged" => d_ret[1].res \in {"Replay", "BadTag"})

\* a forged packet with a counter not yet accepted is rejected as BadTag while
\* the window is at work
C15_Witness ==
    /\ IsRecvData
    /\ d_ret[1].kind = "forged"
    /\ d_ret[1].res = "BadTag"
    /\ d_ret[1].before.window # {}
    /\ d_ret[1].before.H < d_ret[1].counter

(***************************************************************************)
(* C16: within a session the counters of the emitted Data packets are      *)
(* strictly increasing, each is below 2^64 - 2^13, and a send that takes a *)
(* counter at or past 2^64 - 2^13 emits nothing and asks for a handshake.  *)
(***************************************************************************)
C16_TxCounters ==
    /\ \A i \in 1..Len(emitted) : \A j \in 1..Len(emitted) :
          i < j => u64_lt(emitted[i], emitted[j])
    /\ \A i \in 1..Len(emitted) : u64_lt(emitted[i], REJECT_AFTER_MESSAGES)
    /\ IsSendData =>
          IF u64_lt(d_ret[1].counter, REJECT_AFTER_MESSAGES)
          THEN /\ d_ret[1].res = "Datagram"
               /\ emitted[Len(emitted)] = d_ret[1].counter
          ELSE /\ d_ret[1].res = "NeedsHandshake"
               /\ session[1] = d_ret[1].before
               /\ \A i \in 1..Len(emitted) : emitted[i] # d_ret[1].counter

\* the counter reaches 2^64 - 2^13 after two packets and the send is refused
C16_Witness ==
    /\ IsSendData
    /\ d_ret[1].res = "NeedsHandshake"
    /\ d_ret[1].counter = REJECT_AFTER_MESSAGES
    /\ Len(emitted) >= 2

NumTableIndex == 3

\* the indices of the live sessions and handshakes of the host
live(t) ==
    {t[e[1]][e[2]][1] :
        e \in {f \in (DOMAIN t) \X {"handshake", "previous", "current", "next"} :
                  t[f[1]][f[2]] # <<>>}}

\* an index is drawn without looking at the live ones
alloc_index_unchecked(t, drawn) == <<drawn>>

\* an index is drawn at random; <<>> (draw again) when it collides with a live one
alloc_index(t, drawn) == IF drawn \in live(t) THEN <<>> ELSE <<drawn>>

InitTable ==
    /\ HandshakeIdle
    /\ RecvIdle
    /\ session = <<>>
    /\ accepted = {}
    /\ emitted = <<>>
    /\ slots = [p \in Keys |-> [handshake |-> <<>>, previous |-> <<>>,
                                current |-> <<>>, next |-> <<>>]]
    /\ d_ret = <<>>
    /\ b2s = <<>>
    /\ wheel = <<>>

\* a handshake is started with a peer (initiator) or a session is installed
\* in the next slot (responder): a local_index is drawn
Create ==
    /\ d_ret = <<>>
    /\ \E peer \in Keys, slot \in {"handshake", "next"}, drawn \in 1..NumTableIndex :
          LET index == alloc_index(slots, drawn)
          IN /\ slots' = IF index = <<>> THEN slots
                         ELSE [slots EXCEPT ![peer][slot] = index]
             /\ d_ret' = <<[fn |-> "create", peer |-> peer, slot |-> slot,
                            drawn |-> drawn, res |-> IF index = <<>> THEN "Retry" ELSE "Ok",
                            before |-> slots]>>
    /\ UNCHANGED <<session, accepted, emitted, hvars, rvars, b2s, wheel>>

\* a promotion that overwrites current and leaves previous as it is
promote_drops_current(peer, slot) ==
    [[peer EXCEPT ![slot] = <<>>] EXCEPT !.current = peer[slot]]

\* the new session becomes current, the displaced current becomes previous and
\* the old previous is retired
promote(peer, slot) ==
    [[peer EXCEPT ![slot] = <<>>] EXCEPT !.previous = peer.current, !.current = peer[slot]]

\* the handshake completes (initiator) or the first Data packet arrives on the
\* next session (responder)
Promote ==
    /\ d_ret = <<>>
    /\ \E peer \in Keys, slot \in {"handshake", "next"} :
          /\ slots[peer][slot] # <<>>
          /\ slots' = [slots EXCEPT ![peer] = promote(@, slot)]
          /\ d_ret' = <<[fn |-> "promote", peer |-> peer, slot |-> slot, drawn |-> 0,
                         res |-> "Ok", before |-> slots]>>
    /\ UNCHANGED <<session, accepted, emitted, hvars, rvars, b2s, wheel>>

\* a session or a handshake in progress expires
Expire ==
    /\ d_ret = <<>>
    /\ \E peer \in Keys, slot \in {"handshake", "previous", "current", "next"} :
          /\ slots[peer][slot] # <<>>
          /\ slots' = [slots EXCEPT ![peer][slot] = <<>>]
          /\ d_ret' = <<[fn |-> "expire", peer |-> peer, slot |-> slot, drawn |-> 0,
                         res |-> "Ok", before |-> slots]>>
    /\ UNCHANGED <<session, accepted, emitted, hvars, rvars, b2s, wheel>>

NextTable ==
    \/ Create
    \/ Promote
    \/ Expire
    \/ Done

SpecTable == InitTable /\ [][NextTable]_vars

(***************************************************************************)
(* C18: no two live sessions of the host, over all peers, all of           *)
(* previous, current and next and the handshakes in progress, share a      *)
(* local_index; a draw that collides with a live index installs nothing    *)
(* and leaves the table as it was, to be drawn again.                      *)
(***************************************************************************)
C18_UniqueLocalIndex ==
    /\ \A p \in DOMAIN slots, q \in DOMAIN slots :
          \A a \in {"handshake", "previous", "current", "next"},
             b \in {"handshake", "previous", "current", "next"} :
             (slots[p][a] # <<>> /\ slots[p][a] = slots[q][b]) => (p = q /\ a = b)
    /\ (d_ret # <<>> /\ d_ret[1].fn = "create") =>
          IF d_ret[1].drawn \in live(d_ret[1].before)
          THEN d_ret[1].res = "Retry" /\ slots = d_ret[1].before
          ELSE d_ret[1].res = "Ok" /\ slots[d_ret[1].peer][d_ret[1].slot] = <<d_ret[1].drawn>>

\* with two sessions live, a draw hits the index of another peer's session
\* and is made again
C18_Witness ==
    /\ d_ret # <<>>
    /\ d_ret[1].fn = "create"
    /\ d_ret[1].res = "Retry"
    /\ Cardinality(live(slots)) >= 2
    /\ \E q \in DOMAIN slots :
          q # d_ret[1].peer /\ slots[q].current = <<d_ret[1].drawn>>

(***************************************************************************)
(* C31: a peer holds at most three sessions, previous, current and next.   *)
(* A handshake that succeeds makes the new session current, the displaced  *)
(* current previous and retires the old previous; a handshake that is      *)
(* begun, whose index has to be drawn again, or that is given up before    *)
(* it completes leaves current and previous of every peer as they were,    *)
(* and current is emptied by nothing but its own expiry.                   *)
(***************************************************************************)
C31_SessionSlots ==
    /\ \A p \in DOMAIN slots :
          Cardinality({i \in live(slots) :
                          \E sl \in {"previous", "current", "next"} : slots[p][sl] = <<i>>}) <= 3
    /\ d_ret # <<>> =>
          LET call == d_ret[1]
              was == call.before[call.peer]
              now == slots[call.peer]
          IN /\ \A q \in DOMAIN slots \ {call.peer} : slots[q] = call.before[q]
             /\ call.fn = "promote" =>
                   /\ was[call.slot] # <<>>
                   /\ now.current = was[call.slot]
                   /\ now.previous = was.current
                   /\ now[call.slot] = <<>>
                   /\ \A sl \in {"handshake", "next"} \ {call.slot} : now[sl] = was[sl]
                   /\ was.previous # <<>> => was.previous[1] \notin live(slots)
             /\ call.fn = "create" =>
                   /\ now.current = was.current
                   /\ now.previous = was.previous
             /\ call.fn = "expire" =>
                   /\ \A sl \in DOMAIN now \ {call.slot} : now[sl] = was[sl]
                   /\ now[call.slot] = <<>>

\* a peer with all three sessions completes another handshake: its previous
\* session is retired
C31_Witness ==
    /\ d_ret # <<>>
    /\ d_ret[1].fn = "promote"
    /\ d_ret[1].slot = "next"
    /\ LET was == d_ret[1].before[d_ret[1].peer]
       IN /\ was.previous # <<>> /\ was.current # <<>> /\ was.next # <<>>
          /\ was.previous[1] \notin live(slots)
          /\ slots[d_ret[1].peer].previous = was.current

(***************************************************************************)
(* The initial Noise state (SpecHash).  tests::construction_identifier of  *)
(* both skeletons hashes the construction string, and the result followed  *)
(* by the identifier string, with blake2::Blake2s256 and compares with the *)
(* constants.  Here BLAKE2s-256 (RFC 7693, no key) is computed on bytes,   *)
(* one mixing step G at a time; a 32-bit word is the pair of its high and  *)
(* its low 16 bits.                                                        *)
(***************************************************************************)
\* b"Noise_IKpsk2_25519_ChaChaPoly_BLAKE2s"
CONSTRUCTION ==
    <<78, 111, 105, 115, 101, 95, 73, 75, 112, 115, 107, 50, 95, 50, 53, 53, 49, 57, 95,
      67, 104, 97, 67, 104, 97, 80, 111, 108, 121, 95, 66, 76, 65, 75, 69, 50, 115>>
\* b"WireGuard v1 zx2c4 Jason@zx2c4.com"
IDENTIFIER ==
    <<87, 105, 114, 101, 71, 117, 97, 114, 100, 32, 118, 49, 32, 122, 120, 50, 99, 52, 32,
      74, 97, 115, 111, 110, 64, 122, 120, 50, 99, 52, 46, 99, 111, 109>>

\* HandshakeState::default() of utils.rs, from the constants of lib.rs
utils_HandshakeState_default ==
    [chain |-> <<"lit", <<96, 226, 109, 174, 243, 39, 239, 192, 46, 195, 53, 226, 160, 37,
                          210, 208, 22, 235, 66, 6, 248, 114, 119, 245, 45, 56, 209, 152,
                          139, 120, 205, 54>> >>,
     hash |-> <<"lit", <<34, 17, 179, 97, 8, 26, 197, 102, 105, 18, 67, 219, 69, 138, 213,
                         50, 45, 156, 108, 102, 34, 147, 232, 183, 14, 225, 156, 101, 186,
                         7, 158, 243>> >>]

xor32(a, b) ==
    LET RECURSIVE x(_, _, _)
        x(p, q, n) == IF n = 0 THEN 0
                      ELSE (((p % 2) + (q % 2)) % 2) + 2 * x(p \div 2, q \div 2, n - 1)
    IN <<x(a[1], b[1], 16), x(a[2], b[2], 16)>>

Blake2sIV ==
    <<<<27145, 58983>>, <<47975, 44677>>, <<15470, 62322>>, <<42319, 62778>>,
      <<20750, 21119>>, <<39685, 26764>>, <<8067, 55723>>, <<23520, 52505>>>>

\* the work vector at the start of the compression of a block: the chain
\* value, the IV, the byte counter and the last-block flag
Blake2sBlock(input, h, block) ==
    LET n == Len(input)
        final == 64 * block >= n
        t == IF final THEN n ELSE 64 * block
    IN [i \in 0..15 |->
          IF i < 8 THEN h[i + 1]
          ELSE IF i = 12 THEN xor32(Blake2sIV[5], <<t \div 65536, t % 65536>>)
          ELSE IF i = 14 /\ final THEN xor32(Blake2sIV[7], <<65535, 65535>>)
          ELSE Blake2sIV[i - 7]]

\* the parameter block (digest length 32, no key, fanout 1, depth 1) is
\* XORed into the IV
Blake2sStart(input) ==
    LET h == [Blake2sIV EXCEPT ![1] = xor32(@, <<257, 32>>)]
    IN [input |-> input, h |-> h, block |-> 1, g |-> 0,
        v |-> Blake2sBlock(input, h, 1), done |-> FALSE]

\* one G of the ten rounds of eight, or the end of the block
Blake2sStep(st) ==
    LET byte(k) == IF k <= Len(st.input) THEN st.input[k] ELSE 0
        m(i) == LET at == 64 * (st.block - 1) + 4 * i
                IN <<byte(at + 3) + 256 * byte(at + 4), byte(at + 1) + 256 * byte(at + 2)>>
        add(a, b) == <<(a[1] + b[1] + (a[2] + b[2]) \div 65536) % 65536,
                       (a[2] + b[2]) % 65536>>
        rotr(a, r) ==
            IF r = 16 THEN <<a[2], a[1]>>
            ELSE <<(a[1] \div (2^r)) + (a[2] % (2^r)) * (2^(16 - r)),
                   (a[2] \div (2^r)) + (a[1] % (2^r)) * (2^(16 - r))>>
        SIGMA ==
            <<<<0, 1, 2, 3, 4, 5, 6, 7, 8, 9, 10, 11, 12, 13, 14, 15>>,
              <<14, 10, 4, 8, 9, 15, 13, 6, 1, 12, 0, 2, 11, 7, 5, 3>>,
              <<11, 8, 12, 0, 5, 2, 15, 13, 10, 14, 3, 6, 7, 1, 9, 4>>,
              <<7, 9, 3, 1, 13, 12, 11, 14, 2, 6, 5, 10, 4, 0, 15, 8>>,
              <<9, 0, 5, 7, 2, 4, 10, 15, 14, 1, 11, 12, 6, 8, 3, 13>>,
              <<2, 12, 6, 10, 0, 11, 8, 3, 4, 13, 7, 5, 15, 14, 1, 9>>,
              <<12, 5, 1, 15, 14, 13, 4, 10, 0, 7, 6, 3, 9, 2, 8, 11>>,
              <<13, 11, 7, 14, 12, 1, 3, 9, 5, 0, 15, 4, 8, 6, 2, 10>>,
              <<6, 15, 14, 9, 11, 3, 0, 8, 12, 2, 13, 7, 1, 4, 10, 5>>,
              <<10, 2, 8, 4, 7, 6, 1, 5, 15, 11, 9, 14, 3, 12, 13, 0>>>>
        at == <<<<0, 4, 8, 12>>, <<1, 5, 9, 13>>, <<2, 6, 10, 14>>, <<3, 7, 11, 15>>,
                <<0, 5, 10, 15>>, <<1, 6, 11, 12>>, <<2, 7, 8, 13>>, <<3, 4, 9, 14>>>>
        s == SIGMA[st.g \div 8 + 1]
        k == st.g % 8
        i == at[k + 1]
        x == m(s[2 * k + 1])
        y == m(s[2 * k + 2])
        a1 == add(add(st.v[i[1]], st.v[i[2]]), x)
        d1 == rotr(xor32(st.v[i[4]], a1), 16)
        c1 == add(st.v[i[3]], d1)
        b1 == rotr(xor32(st.v[i[2]], c1), 12)
        a2 == add(add(a1, b1), y)
        d2 == rotr(xor32(d1, a2), 8)
        c2 == add(c1, d2)
        b2 == rotr(xor32(b1, c2), 7)
        h2 == [j \in 1..8 |-> xor32(xor32(st.h[j], st.v[j - 1]), st.v[j + 7])]
    IN IF st.g < 80
       THEN [st EXCEPT !.g = @ + 1,
                       !.v = [@ EXCEPT ![i[1]] = a2, ![i[2]] = b2, ![i[3]] = c2, ![i[4]] = d2]]
       ELSE IF 64 * st.block >= Len(st.input)
       THEN [st EXCEPT !.h = h2, !.done = TRUE]
       ELSE [st EXCEPT !.h = h2, !.block = @ + 1, !.g = 0,
                       !.v = Blake2sBlock(st.input, h2, st.block + 1)]

\* the digest: the chain value as bytes, little-endian
Blake2sDigest(st) ==
    [j \in 1..32 |->
        LET w == st.h[(j - 1) \div 4 + 1]
            r == (j - 1) % 4
        IN IF r = 0 THEN w[2] % 256 ELSE IF r = 1 THEN w[2] \div 256
           ELSE IF r = 2 THEN w[1] % 256 ELSE w[1] \div 256]

\* the test of either skeleton starts one of its two hashes
InitHash ==
    /\ HandshakeIdle
    /\ RecvIdle
    /\ session = <<>> /\ accepted = {} /\ emitted = <<>> /\ slots = <<>> /\ d_ret = <<>>
    /\ \E file \in {"crypto.rs", "lib.rs"}, what \in {"construction", "identifier"} :
          LET default == IF file = "crypto.rs" THEN HandshakeState_default
                         ELSE utils_HandshakeState_default
              input == IF what = "construction" THEN CONSTRUCTION
                       ELSE default.chain[2] \o IDENTIFIER
          IN b2s = <<[file |-> file, what |-> what, default |-> default,
                      st |-> Blake2sStart(input)]>>
    /\ wheel = <<>>

HashStep ==
    /\ b2s # <<>>
    /\ ~b2s[1].st.done
    /\ b2s' = <<[b2s[1] EXCEPT !.st = Blake2sStep(@)]>>
    /\ UNCHANGED <<hvars, rvars, dvars, wheel>>

SpecHash == InitHash /\ [][HashStep]_vars

(***************************************************************************)
(* C21: HandshakeState::default() is the same fixed state in both          *)
(* skeletons: chain = CONSTRUCTION_HASH, the BLAKE2s hash of the           *)
(* construction string, and hash = IDENTIFIER_HASH, the BLAKE2s hash of    *)
(* chain followed by the identifier string.                                *)
(***************************************************************************)
C21_InitialState ==
    /\ HandshakeState_default = [chain |-> CONSTRUCTION_HASH, hash |-> IDENTIFIER_HASH]
    /\ utils_HandshakeState_default = HandshakeState_default
    /\ (b2s # <<>> /\ b2s[1].st.done) =>
          Blake2sDigest(b2s[1].st) =
             IF b2s[1].what = "construction" THEN b2s[1].default.chain[2]
             ELSE b2s[1].default.hash[2]

\* the second hash, of two blocks, is done
C21_Witness ==
    /\ b2s # <<>>
    /\ b2s[1].st.done
    /\ b2s[1].what = "identifier"
    /\ b2s[1].st.block = 2
    /\ Blake2sDigest(b2s[1].st) = IDENTIFIER_HASH[2]

(***************************************************************************)
(* C22: mac1 is a function of the mac1 key and of the bytes before the     *)
(* mac1 field alone: whatever the mac2 field holds, whichever cookie       *)
(* secret is current and whether or not the host is under load, the same   *)
(* key and the same leading bytes give the same mac1, in HasMac and in     *)
(* MacProtected, and the mac1 check rejects exactly on that value.         *)
(***************************************************************************)
C22_Mac1Function ==
    /\ IsVerify =>
          LET msg == rx[1].msg[1]
              key == HostConfig.mac1_key
          IN /\ \A m2 \in {zero(16), junk(16, 1), msg.mac1} :
                   compute_mac1([msg EXCEPT !.mac2 = m2], key) = compute_mac1(msg, key)
             /\ compute_mac1(msg, key)
                   = mac(key, << Take(rx[1].bytes, offset_of_mac1(msg)) >>)
             /\ (ret[1].res = "Rejected") = (compute_mac1(msg, key) # msg.mac1)
    /\ (IsRecv /\ IsAlignedOfSize(rx[1], MSG_FIRST, 4 + SizeOfFirst)) =>
          LET key == rx[1].self.config.mac1_key
          IN /\ \A m2 \in {zero(16), junk(16, 1), RecvdInit.mac1} :
                   MacProtected_mac1([RecvdInit EXCEPT !.mac2 = m2], key)
                      = MacProtected_mac1(RecvdInit, key)
             /\ MacProtected_mac1(RecvdInit, key)
                   = mac(key, << Slice(rx[1].bytes, 4, SizeOfFirst - 32) >>)

\* under load and after a rotation of the cookie secret, a message that
\* carries a mac2 has its mac1 accepted
C22_Witness ==
    /\ IsVerify
    /\ rx[1].load
    /\ secrets > 0
    /\ rx[1].msg[1].mac2 # zero(16)
    /\ ret[1].res # "Rejected"

(***************************************************************************)
(* C23: mac1 covers every byte before the mac1 field, the type tag first:  *)
(* an Init or Resp built by encrypt_handshake_init / encrypt_handshake_resp*)
(* for the host passes the mac1 check under the host's mac1 key, in        *)
(* HasMac::verify and in recv_message of the src/ skeleton, and the same   *)
(* message with another type tag or sender before the same mac1 fails it.  *)
(***************************************************************************)
C23_Mac1CoversPrefix ==
    /\ IsVerify =>
          LET msg == rx[1].msg[1]
              key == HostConfig.mac1_key
              built == \E s \in Keys, a \in 0..NumAddr, g \in 0..MaxSecrets :
                          msg \in {InitFrom(s, 1, HeldCookie(a, g)), RespTo(HeldCookie(a, g))}
          IN built =>
                /\ verify_mac1(msg, key)
                /\ ret[1].res # "Rejected"
                /\ ~verify_mac1([msg EXCEPT !._type = le32(MSG_COOKIE)], key)
                /\ ~verify_mac1([msg EXCEPT !.sender = le32(0)], key)
    /\ (/\ IsRecv
        /\ rx[1].align = 0
        /\ \E s \in Keys, a \in 0..NumAddr, g \in 0..MaxSecrets :
              rx[1].bytes = as_bytes(InitFrom(s, 1, HeldCookie(a, g)))) =>
          /\ MacProtected_verify_mac1(RecvdInit, rx[1].self.config)
          /\ ~(ret[1].res = "Err" /\ ret[1].err = "Rejected" /\ ret[1].dh = 0)

(***************************************************************************)
(* C24: in an Init or Resp built by encrypt_handshake_init or              *)
(* encrypt_handshake_resp, mac2 is all-zero exactly when no cookie was     *)
(* supplied; with a cookie, mac2 is the MAC under the cookie of the bytes  *)
(* before mac2, and those bytes end with the final mac1.                   *)
(***************************************************************************)
C24_Mac2FromCookie ==
    IsVerify =>
       \A s \in Keys, a \in 0..NumAddr, g \in 0..MaxSecrets :
          LET msg == rx[1].msg[1]
              cookie == HeldCookie(a, g)
          IN msg \in {InitFrom(s, 1, cookie), RespTo(cookie)} =>
                /\ (msg.mac2 = zero(16)) = (cookie = <<>>)
                /\ msg.mac1 = mac(HostConfig.mac1_key,
                                  << Take(rx[1].bytes, offset_of_mac1(msg)) >>)
                /\ Slice(rx[1].bytes, offset_of_mac1(msg), 16) = <<msg.mac1>>
                /\ cookie # <<>> =>
                      msg.mac2 = mac(cookie[1], << Take(rx[1].bytes, offset_of_mac2(msg)) >>)

\* a Resp and an Init closed with a cookie have been handed in, and one
\* without a cookie
C24_Witness ==
    /\ IsVerify
    /\ ~IsInit(rx[1].msg[1])
    /\ rx[1].msg[1] = RespTo(HeldCookie(1, 1))
    /\ rx[1].msg[1].mac2 # zero(16)
    /\ RespTo(<<>>).mac2 = zero(16)

(***************************************************************************)
(* C25: every Init the initiator builds carries type tag 1 and the         *)
(* initiator's index in its sender field; every Resp the responder builds  *)
(* carries type tag 2, the sender index of the Init it answers in its      *)
(* receiver field and the responder's own index in its sender field.       *)
(***************************************************************************)
C25_TagsAndIndices ==
    [][/\ SendInit =>
             /\ Slice(as_bytes(net'[1]), 0, 4) = <<le32(MSG_FIRST)>>
             /\ Slice(as_bytes(net'[1]), 4, 4) = <<le32(sent'[1].sender)>>
       /\ SendResp =>
             /\ Slice(as_bytes(net'[1]), 0, 4) = <<le32(MSG_SECOND)>>
             /\ Slice(as_bytes(net'[1]), 8, 4) = <<le32(sent[1].sender)>>
             /\ \E esk \in Keys, sender \in Indices :
                   /\ r_hs' = encrypt_handshake_resp(r_hs, r_data[1], esk, r_peer,
                                                     sender, <<>>).hs
                   /\ net'[1].ephemeral_key = PublicKey(esk)
                   /\ Slice(as_bytes(net'[1]), 4, 4) = <<le32(sender)>>]_vars

\* a Resp is in flight whose responder index differs from the initiator's
C25_Witness ==
    /\ pc = "resp_sent"
    /\ ~IsInit(net[1])
    /\ net[1].receiver = le32(sent[1].sender)
    /\ net[1].sender # net[1].receiver

(***************************************************************************)
(* C26: CookieState::new_cookie returns for every IPv4 and every IPv6      *)
(* socket address, without panicking, the MAC under the cookie secret of   *)
(* the address and the port; equal secret and address give equal cookies   *)
(* and addresses that differ in IP or port are MACed over different bytes. *)
(***************************************************************************)
C26_NewCookieTotal ==
    /\ \A a \in AddrIds, b \in AddrIds :
          LET x == new_cookie(cookie_state, Addr(a))
              y == new_cookie(cookie_state, Addr(b))
          IN /\ ~x.panic
             /\ x.cookie[1] = "mac" /\ x.cookie[2] = cookie_state.key
             /\ (a = b) = (x.cookie = y.cookie)
    /\ (IsVerify /\ rx[1].load /\ verify_mac1(rx[1].msg[1], HostConfig.mac1_key)) =>
          ret[1].res # "panic"

(***************************************************************************)
(* C27: the responder looks the decrypted static key up among its peers    *)
(* before the static-static DH and before decrypting the timestamp: an     *)
(* Init, intact and meant for the responder, whose static key is not a     *)
(* registered peer is turned down after one DH, as an unknown peer, and    *)
(* is never handed on as accepted.                                         *)
(***************************************************************************)
C27_LookupBeforeSecondDh ==
    (/\ ~tampered
     /\ sent # <<>>
     /\ i_peer.key = r_cfg.public_key
     /\ i_cfg.public_key # r_peer.key) =>
        /\ pc = "processed" =>
              /\ ~p_ret[1].ok
              /\ p_ret[1].err = "Rejected"
              /\ p_ret[1].dh = 1
        /\ pc # "init_ok"

(***************************************************************************)
(* C28: when decrypt_handshake_init or FirstMessage::process returns an    *)
(* error, the handshake state the caller holds and the Init in the         *)
(* caller's buffer are what they were before the call.                     *)
(***************************************************************************)
C28_ErrorLeavesNoTrace ==
    [][/\ (RecvInit /\ pc' = "init_err") =>
             /\ r_hs' = r_hs
             /\ decrypt_handshake_init(net[1], r_hs, r_cfg).init = net[1]
       /\ (Process /\ ~p_ret'[1].ok) =>
             p_ret'[1].self = FirstFromBytes(Drop(as_bytes(net[1]), 4)).inner]_vars

(***************************************************************************)
(* C29: encrypt_and_hash and decrypt_and_hash take the hash from before    *)
(* the call as AAD and counter 0 as nonce, and both mix the ciphertext     *)
(* with its tag, never the plaintext, into the hash: what the sender       *)
(* encrypts the receiver recovers under the same key from the same hash,   *)
(* and the two hashes are equal afterwards.                                *)
(***************************************************************************)
C29_EncryptDecryptAgree ==
    /\ sent # <<>> =>
          \A hs \in {HandshakeState_default, i_hs, r_hs}, k \in {i_peer.key, r_peer.key},
             P \in {<<i_cfg.public_key>>, <<sent[1].now>>, <<>>} :
             LET e == encrypt_and_hash(P, hs, k)
                 d == decrypt_and_hash(e.out, hs, k)
             IN /\ e.out.tag = Poly1305(k, nonce(0), hs.hash, e.out.msg)
                /\ P # <<>> => e.out.msg # P
                /\ e.hs = [hs EXCEPT !.hash = hash(<< <<hs.hash>>, e.out.msg \o <<e.out.tag>> >>)]
                /\ d.ok
                /\ d.self.msg = P
                /\ d.hs = e.hs
                /\ ~decrypt_and_hash(e.out, mix_hash(hs, P), k).ok
    /\ pc = "init_ok" =>
          /\ static_key(r_data[1]) = i_cfg.public_key
          /\ timestamp(r_data[1]) = sent[1].now
          /\ r_hs = i_hs

\* the responder has decrypted both fields of an Init and holds the
\* initiator's hash
C29_Witness ==
    /\ pc = "init_ok"
    /\ timestamp(r_data[1]) = sent[1].now
    /\ r_hs = i_hs
    /\ r_hs # HandshakeState_default

(***************************************************************************)
(* C30: Split() returns the two outputs of Hkdf2 over the chain as it was  *)
(* before the call with the empty input, and zeroises the state: chain     *)
(* and hash are all-zero afterwards, and a second Split on that state      *)
(* gives other keys.                                                       *)
(***************************************************************************)
C30_SplitZeroises ==
    [][/\ SplitInitiator =>
             /\ i_keys'[1].k1 = hkdf(2, i_hs.chain, <<>>)[1]
             /\ i_keys'[1].k2 = hkdf(2, i_hs.chain, <<>>)[2]
             /\ i_hs.chain # zero(32)
             /\ i_hs' = [chain |-> zero(32), hash |-> zero(32)]
             /\ {split(i_hs').k1, split(i_hs').k2} \cap {i_keys'[1].k1, i_keys'[1].k2} = {}
             /\ split(i_hs').hs = i_hs'
       /\ SplitResponder =>
             /\ r_keys'[1].k1 = hkdf(2, r_hs.chain, <<>>)[1]
             /\ r_keys'[1].k2 = hkdf(2, r_hs.chain, <<>>)[2]
             /\ r_hs.chain # zero(32)
             /\ r_hs' = [chain |-> zero(32), hash |-> zero(32)]
             /\ {split(r_hs').k1, split(r_hs').k2} \cap {r_keys'[1].k1, r_keys'[1].k2} = {}
             /\ split(r_hs').hs = r_hs']_vars

\* both sides have split, hold the same keys and a zeroised state
C30_Witness ==
    /\ i_keys # <<>>
    /\ r_keys # <<>>
    /\ i_keys = r_keys
    /\ i_keys[1].k1 # i_keys[1].k2
    /\ i_hs = [chain |-> zero(32), hash |-> zero(32)]
    /\ r_hs = i_hs

(***************************************************************************)
(* Timer wheel (SpecTick).  The driver of examples/tun.rs draws            *)
(* maintenance messages from Sessions::turn once a second until it         *)
(* returns None, reading the clock anew for every call.  Under src/ turn   *)
(* is only called; what it does follows section 4.8 of the specification:  *)
(* per peer the deadlines of the retransmission of an outstanding Init, of *)
(* giving the handshake up, of the rekey, of the keepalive and of the      *)
(* retirement of the session, and the rotation of the cookie secret.       *)
(***************************************************************************)
\* how far the clock runs
MaxClock == 6

\* the constants of section 4.8, in seconds
Timers ==
    [REKEY_TIMEOUT |-> 5, REKEY_ATTEMPT_TIME |-> 90, REKEY_AFTER_TIME |-> 120,
     REJECT_AFTER_TIME |-> 180, KEEPALIVE_TIMEOUT |-> 10, COOKIE_SECRET_TTL |-> 120]

\* the deadlines of a peer whose session was established at created and last
\* sent on at sent_at, and whose handshake was begun at started and last sent
\* at init_at (<<>>: there is none)
deadlines(created, sent_at, started, init_at) ==
    [retransmit |-> IF started = <<>> THEN <<>> ELSE <<init_at[1] + Timers.REKEY_TIMEOUT>>,
     giveup |-> IF started = <<>> THEN <<>> ELSE <<started[1] + Timers.REKEY_ATTEMPT_TIME>>,
     rekey |-> IF created = <<>> \/ started # <<>> THEN <<>>
               ELSE <<created[1] + Timers.REKEY_AFTER_TIME>>,
     keepalive |-> IF created = <<>> THEN <<>> ELSE <<sent_at[1] + Timers.KEEPALIVE_TIMEOUT>>,
     retire |-> IF created = <<>> THEN <<>> ELSE <<created[1] + Timers.REJECT_AFTER_TIME>>]

\* a deadline that stays where it is once it has been served
rearm_never(peer, kind, now) == peer

\* the deadlines of a peer after a message of the kind was emitted at now
rearm(peer, kind, now) ==
    CASE kind = "retransmit" -> [peer EXCEPT !.retransmit = <<now + Timers.REKEY_TIMEOUT>>]
      [] kind = "rekey" ->
            [peer EXCEPT !.rekey = <<>>,
                         !.retransmit = <<now + Timers.REKEY_TIMEOUT>>,
                         !.giveup = <<now + Timers.REKEY_ATTEMPT_TIME>>]
      [] kind = "keepalive" -> [peer EXCEPT !.keepalive = <<now + Timers.KEEPALIVE_TIMEOUT>>]

\* Sessions::turn: what is due is resolved in the order of section 4.8 until a
\* message is emitted or nothing is due; returns the timers and <<>> (None)
\* or the message: whose it is, its kind and the deadline it serves
RECURSIVE turn(_, _)
turn(self, now) ==
    LET due(kind) == {p \in DOMAIN self.peers :
                         self.peers[p][kind] # <<>> /\ self.peers[p][kind][1] <= now}
        first(kind) == CHOOSE p \in due(kind) : \A q \in due(kind) : p <= q
        emit(kind) ==
            LET p == first(kind)
            IN [self |-> [self EXCEPT !.peers[p] = rearm(@, kind, now)],
                msg |-> <<[peer |-> p, kind |-> kind, deadline |-> self.peers[p][kind][1]]>>]
        \* what was due is resolved without a message: on to the next
        on(next) == CHOOSE r \in {turn(s, now) : s \in {next}} : TRUE
    IN IF self.rotate <= now
       THEN on([self EXCEPT !.rotate = now + Timers.COOKIE_SECRET_TTL])
       ELSE IF due("giveup") # {}
       THEN on([self EXCEPT !.peers[first("giveup")].giveup = <<>>,
                            !.peers[first("giveup")].retransmit = <<>>])
       ELSE IF due("retransmit") # {} THEN emit("retransmit")
       ELSE IF due("rekey") # {} THEN emit("rekey")
       ELSE IF due("keepalive") # {} THEN emit("keepalive")
       ELSE IF due("retire") # {}
       THEN on([self EXCEPT !.peers[first("retire")].retire = <<>>,
                            !.peers[first("retire")].rekey = <<>>,
                            !.peers[first("retire")].keepalive = <<>>])
       ELSE [self |-> self, msg |-> <<>>]

\* the host at the start of the clock.  A peer has a session about to be
\* rekeyed, or a session about to be retired and a handshake about to be given
\* up, or no session and a handshake whose Init is due again now.
InitTick ==
    /\ HandshakeIdle
    /\ RecvIdle
    /\ session = <<>> /\ accepted = {} /\ emitted = <<>> /\ slots = <<>> /\ d_ret = <<>>
    /\ b2s = <<>>
    /\ \E peers \in [Keys -> {deadlines(<<-115>>, <<-8>>, <<>>, <<>>),
                              deadlines(<<-175>>, <<-175>>, <<-88>>, <<-88>>),
                              deadlines(<<>>, <<>>, <<-50>>, <<-5>>)}],
          rotate \in {2} :
          wheel = <<[clock |-> 0, pc |-> "select", batch |-> 0, ticks |-> 0,
                     self |-> [peers |-> peers, rotate |-> rotate],
                     sent |-> {}, twice |-> {}]>>

\* tick.tick(): the interval fires and the loop is entered
TickFires ==
    /\ wheel[1].pc = "select"
    /\ wheel[1].ticks < 2
    /\ wheel' = <<[wheel[1] EXCEPT !.pc = "loop", !.batch = 0, !.ticks = @ + 1]>>
    /\ UNCHANGED <<hvars, rvars, dvars, b2s>>

\* one pass of while let Some(msg) = sessions.turn(Tai64N::now(), ..): the
\* message is sent, or None ends the loop
Turn ==
    /\ wheel[1].pc = "loop"
    /\ \E r \in {turn(wheel[1].self, wheel[1].clock)} :
          wheel' = <<IF r.msg = <<>>
                     THEN [wheel[1] EXCEPT !.pc = "select", !.self = r.self]
                     ELSE [wheel[1] EXCEPT
                              !.self = r.self,
                              !.batch = IF @ < 2 * Cardinality(Keys) + 1 THEN @ + 1 ELSE @,
                              !.sent = @ \cup {r.msg[1]},
                              !.twice = @ \cup ({r.msg[1]} \cap wheel[1].sent)]>>
    /\ UNCHANGED <<hvars, rvars, dvars, b2s>>

\* a second passes, in the loop or out of it
Advance ==
    /\ wheel[1].clock < MaxClock
    /\ wheel' = <<[wheel[1] EXCEPT !.clock = @ + 1, !.ticks = 0, !.batch = 0]>>
    /\ UNCHANGED <<hvars, rvars, dvars, b2s>>

NextTick ==
    \/ TickFires
    \/ Turn
    \/ Advance

\* the loop is not suspended for ever
SpecTick == InitTick /\ [][NextTick]_vars /\ WF_vars(Turn)

(***************************************************************************)
(* C32: while the clock stands still the tick loop draws finitely many     *)
(* maintenance messages and ends, and no message is emitted twice for the  *)
(* same deadline of the same peer, neither within one tick nor in a later  *)
(* one.                                                                    *)
(***************************************************************************)
C32_TickTerminates ==
    /\ [](wheel[1].twice = {})
    /\ [](wheel[1].batch <= 2 * Cardinality(Keys))
    /\ (wheel[1].pc = "loop") ~> (wheel[1].pc = "select")

\* a second tick at the same time of the clock has ended without a message,
\* after every peer was served and a retransmission came due a second time
C32_Witness ==
    /\ wheel[1].pc = "select"
    /\ wheel[1].ticks = 2
    /\ wheel[1].batch = 0
    /\ Cardinality(wheel[1].sent) >= 2 * Cardinality(Keys)
    /\ \E m \in wheel[1].sent, n \in wheel[1].sent :
          m.peer = n.peer /\ m.kind = n.kind /\ m.deadline < n.deadline
====
